---- MODULE Spec2Model ----
(***************************************************************************)
(* A model of the normalization core of mcp-factory: the format detector,  *)
(* the OpenAPI/Swagger normalizer, the API Blueprint normalizer and the    *)
(* two schema inference functions.                                         *)
(*                                                                         *)
(* JavaScript values are modelled as tagged records (field t is the tag).  *)
(* An object is the sequence of its entries in enumeration order, so that  *)
(* Object.entries, Object.keys and Object.values are the sequence itself.  *)
(***************************************************************************)
EXTENDS Integers, Sequences, FiniteSets, TLC

VARIABLES
    pc,         \* detectFormat: position in the function body
    input,      \* detectFormat: the file named by the argument
    content,    \* detectFormat: text read from the file
    parsed,     \* detectFormat: value produced by JSON.parse / yaml.parse
    attempts,   \* detectFormat: the parse calls made so far, in order
    detection,  \* detectFormat: what the call returned or threw
    call,       \* schema inference: the function called
    value,      \* schema inference: its argument
    schemaType, \* schema inference: the SchemaType it returned
    spec,       \* parseOpenAPI: the document passed to it
    apiSchema,  \* parseOpenAPI: what the call returned or threw
    drafted,    \* parseAPIBlueprint: what drafter.parseSync gives for the content
    blueprint,  \* parseAPIBlueprint: what the call returned or threw
    registryFile, \* registry: what JSON.parse gives for registry.json, Undefined when missing
    at,         \* registry: each caller's position in the function it called
    calling,    \* registry: each caller's function and arguments
    registry,   \* registry: each caller's local variable registry
    reply,      \* registry: what each caller's last call returned
    budget,     \* registry: the calls each caller may still make
    now,        \* registry: the clock new Date() reads
    log,        \* registry: the completed calls, in the order they completed
    command,    \* CLI: the command invoked, create or validate
    options,    \* CLI: the options of the command
    stage,      \* CLI: the command's position in its function body
    calls,      \* CLI: the functions the command has called, in order
    normalized, \* createCommand: what the parser it called returned or threw
    patterns,   \* createCommand: what analyzePatterns returned
    outputDir,  \* createCommand: the directory of the generated server
    written,    \* generateServer: the output files written, in order
    exitCode    \* CLI: the exit code of the process, Undefined while it runs

detectorVars == <<pc, input, content, parsed, attempts, detection>>

inferenceVars == <<call, value, schemaType>>

openapiVars == <<spec, apiSchema>>

blueprintVars == <<drafted, blueprint>>

registryVars == <<registryFile, at, calling, registry, reply, budget, now, log>>

commandVars ==
    <<command, options, stage, calls, normalized, patterns, outputDir, written, exitCode>>

vars ==
    <<detectorVars, inferenceVars, openapiVars, blueprintVars, registryVars, commandVars>>

\* What each component leaves alone.
notDetector == <<inferenceVars, openapiVars, blueprintVars, registryVars, commandVars>>

notInference == <<detectorVars, openapiVars, blueprintVars, registryVars, commandVars>>

notOpenAPI == <<detectorVars, inferenceVars, blueprintVars, registryVars, commandVars>>

notBlueprint == <<detectorVars, inferenceVars, openapiVars, registryVars, commandVars>>

notRegistry == <<detectorVars, inferenceVars, openapiVars, blueprintVars, commandVars>>

\* What a command leaves alone while the detector and the registry are not
\* running for it.
notCommand == <<inferenceVars, openapiVars, blueprintVars>>

----------------------------------------------------------------------------
(* JavaScript values *)

Undefined == [t |-> "undefined"]
Null == [t |-> "null"]
Bool(b) == [t |-> "boolean", b |-> b]
Num(n) == [t |-> "number", n |-> n]
Str(s) == [t |-> "string", s |-> s]
Arr(a) == [t |-> "array", a |-> a]
Obj(o) == [t |-> "object", o |-> o]
Entry(k, v) == [k |-> k, v |-> v]

IsNullish(v) == v.t \in {"undefined", "null"}

\* ToBoolean, as applied by if (...), !x, x || y and filter(Boolean).
Truthy(v) ==
    CASE v.t \in {"undefined", "null"} -> FALSE
      [] v.t = "boolean" -> v.b
      [] v.t = "number" -> "n" \in DOMAIN v /\ v.n # 0
      [] v.t = "string" -> v.s # ""
      [] OTHER -> TRUE

HasKey(v, key) == v.t = "object" /\ \E i \in 1..Len(v.o) : v.o[i].k = key

\* v.key on a value that is not null or undefined: a missing property, and
\* any property of a primitive or of an array other than its own, reads as
\* undefined.
Get(v, key) ==
    IF HasKey(v, key)
    THEN v.o[CHOOSE i \in 1..Len(v.o) : v.o[i].k = key].v
    ELSE Undefined

\* v?.key
OptGet(v, key) == IF IsNullish(v) THEN Undefined ELSE Get(v, key)

\* a || b
Or(a, b) == IF Truthy(a) THEN a ELSE b

----------------------------------------------------------------------------
(* String.prototype methods, computed character by character *)

StartsWith(s, prefix) ==
    Len(s) >= Len(prefix) /\ SubSeq(s, 1, Len(prefix)) = prefix

EndsWith(s, suffix) ==
    Len(s) >= Len(suffix) /\ SubSeq(s, Len(s) - Len(suffix) + 1, Len(s)) = suffix

Includes(s, sub) ==
    \E i \in 1..(Len(s) - Len(sub) + 1) : SubSeq(s, i, i + Len(sub) - 1) = sub

WhiteSpace == {" ", "\t", "\n"}

RECURSIVE TrimStart(_)
TrimStart(s) ==
    IF Len(s) > 0 /\ SubSeq(s, 1, 1) \in WhiteSpace
    THEN TrimStart(SubSeq(s, 2, Len(s)))
    ELSE s

RECURSIVE TrimEnd(_)
TrimEnd(s) ==
    IF Len(s) > 0 /\ SubSeq(s, Len(s), Len(s)) \in WhiteSpace
    THEN TrimEnd(SubSeq(s, 1, Len(s) - 1))
    ELSE s

Trim(s) == TrimEnd(TrimStart(s))


Lower == "abcdefghijklmnopqrstuvwxyz"

Upper == "ABCDEFGHIJKLMNOPQRSTUVWXYZ"

UpperChar(c) ==
    IF \E i \in 1..Len(Lower) : SubSeq(Lower, i, i) = c
    THEN LET i == CHOOSE i \in 1..Len(Lower) : SubSeq(Lower, i, i) = c
         IN SubSeq(Upper, i, i)
    ELSE c

RECURSIVE ToUpperCase(_)
ToUpperCase(s) ==
    IF Len(s) = 0 THEN ""
    ELSE UpperChar(SubSeq(s, 1, 1)) \o ToUpperCase(SubSeq(s, 2, Len(s)))

LowerChar(c) ==
    IF \E i \in 1..Len(Upper) : SubSeq(Upper, i, i) = c
    THEN LET i == CHOOSE i \in 1..Len(Upper) : SubSeq(Upper, i, i) = c
         IN SubSeq(Lower, i, i)
    ELSE c

RECURSIVE ToLowerCase(_)
ToLowerCase(s) ==
    IF Len(s) = 0 THEN ""
    ELSE LowerChar(SubSeq(s, 1, 1)) \o ToLowerCase(SubSeq(s, 2, Len(s)))

\* s.replace(/c/g, by) for a one-character pattern c.
RECURSIVE ReplaceAll(_, _, _)
ReplaceAll(s, c, by) ==
    IF Len(s) = 0 THEN ""
    ELSE (IF SubSeq(s, 1, 1) = c THEN by ELSE SubSeq(s, 1, 1))
         \o ReplaceAll(SubSeq(s, 2, Len(s)), c, by)

Digits == "0123456789"

IsDigit(c) == \E i \in 1..Len(Digits) : SubSeq(Digits, i, i) = c

DigitValue(c) == (CHOOSE i \in 1..Len(Digits) : SubSeq(Digits, i, i) = c) - 1

NaN == [t |-> "number", nan |-> TRUE]

RECURSIVE LeadingDigits(_, _)
LeadingDigits(s, acc) ==
    IF Len(s) > 0 /\ IsDigit(SubSeq(s, 1, 1))
    THEN LeadingDigits(SubSeq(s, 2, Len(s)), 10 * acc + DigitValue(SubSeq(s, 1, 1)))
    ELSE acc

\* parseInt of the text of an unsigned status code: the number its leading
\* digits spell, NaN when it starts with none.
parseInt(s) ==
    IF Len(s) > 0 /\ IsDigit(SubSeq(s, 1, 1)) THEN Num(LeadingDigits(s, 0)) ELSE NaN

----------------------------------------------------------------------------
(* Format detector: detectFormat *)

Thrown == [t |-> "throw"]

Pending == [status |-> "pending"]

\* The sample files' texts, each with what JSON.parse and yaml.parse return
\* for it (Thrown when the call throws).
Samples == {
    [text |-> "FORMAT: 1A # My API", json |-> Thrown,
        yaml |-> Obj(<<Entry("FORMAT", Str("1A"))>>)],
    [text |-> "  FORMAT: 1A", json |-> Thrown,
        yaml |-> Obj(<<Entry("FORMAT", Str("1A"))>>)],
    [text |-> "# FORMAT: 1A", json |-> Thrown, yaml |-> Null],
    [text |-> "", json |-> Thrown, yaml |-> Null],
    [text |-> "null", json |-> Null, yaml |-> Null],
    [text |-> "42", json |-> Num(42), yaml |-> Num(42)],
    [text |-> "[]", json |-> Arr(<<>>), yaml |-> Arr(<<>>)],
    [text |-> "hello", json |-> Thrown, yaml |-> Str("hello")],
    [text |-> "{unclosed", json |-> Thrown, yaml |-> Thrown],
    [text |-> "{\"openapi\":\"3.0.1\"}",
        json |-> Obj(<<Entry("openapi", Str("3.0.1"))>>),
        yaml |-> Obj(<<Entry("openapi", Str("3.0.1"))>>)],
    [text |-> "openapi: 3.1.0", json |-> Thrown,
        yaml |-> Obj(<<Entry("openapi", Str("3.1.0"))>>)],
    [text |-> "{\"openapi\":\"3.0.1\",\"info\":{\"title\":\"Pets\"}}",
        json |-> Obj(<<Entry("openapi", Str("3.0.1")),
                       Entry("info", Obj(<<Entry("title", Str("Pets"))>>))>>),
        yaml |-> Obj(<<Entry("openapi", Str("3.0.1")),
                       Entry("info", Obj(<<Entry("title", Str("Pets"))>>))>>)],
    [text |-> "{\"swagger\":\"2.0\",\"info\":{}}",
        json |-> Obj(<<Entry("swagger", Str("2.0")), Entry("info", Obj(<<>>))>>),
        yaml |-> Obj(<<Entry("swagger", Str("2.0")), Entry("info", Obj(<<>>))>>)],
    [text |-> "{\"openapi\":\"2.5\"}",
        json |-> Obj(<<Entry("openapi", Str("2.5"))>>),
        yaml |-> Obj(<<Entry("openapi", Str("2.5"))>>)],
    [text |-> "{\"swagger\":\"2.0\"}",
        json |-> Obj(<<Entry("swagger", Str("2.0"))>>),
        yaml |-> Obj(<<Entry("swagger", Str("2.0"))>>)],
    [text |-> "swagger: '1.2'", json |-> Thrown,
        yaml |-> Obj(<<Entry("swagger", Str("1.2"))>>)],
    [text |-> "{\"swagger\":\"2.0\",\"openapi\":\"3.0.1\"}",
        json |-> Obj(<<Entry("swagger", Str("2.0")), Entry("openapi", Str("3.0.1"))>>),
        yaml |-> Obj(<<Entry("swagger", Str("2.0")), Entry("openapi", Str("3.0.1"))>>)],
    [text |-> "{\"info\":{\"schema\":\"https://schema.getpostman.com/collection.json\"}}",
        json |-> Obj(<<Entry("info", Obj(<<Entry("schema",
                    Str("https://schema.getpostman.com/collection.json"))>>))>>),
        yaml |-> Obj(<<Entry("info", Obj(<<Entry("schema",
                    Str("https://schema.getpostman.com/collection.json"))>>))>>)],
    [text |-> "{\"swagger\":\"2.0\",\"info\":{\"schema\":\"postman\"}}",
        json |-> Obj(<<Entry("swagger", Str("2.0")),
                       Entry("info", Obj(<<Entry("schema", Str("postman"))>>))>>),
        yaml |-> Obj(<<Entry("swagger", Str("2.0")),
                       Entry("info", Obj(<<Entry("schema", Str("postman"))>>))>>)],
    [text |-> "{\"info\":{\"schema\":\"other\"}}",
        json |-> Obj(<<Entry("info", Obj(<<Entry("schema", Str("other"))>>))>>),
        yaml |-> Obj(<<Entry("info", Obj(<<Entry("schema", Str("other"))>>))>>)],
    [text |-> "info: {title: Pets}", json |-> Thrown,
        yaml |-> Obj(<<Entry("info", Obj(<<Entry("title", Str("Pets"))>>))>>)],
    [text |-> "{\"info\":{\"schema\":5}}",
        json |-> Obj(<<Entry("info", Obj(<<Entry("schema", Num(5))>>))>>),
        yaml |-> Obj(<<Entry("info", Obj(<<Entry("schema", Num(5))>>))>>)]
}

Paths == {"api.apib", "api.apiblueprint", "api.json", "api.yaml", "apib",
          "api.apib.json"}

\* A file that cannot be read has no text.
Files ==
    {[path |-> p, readable |-> TRUE, text |-> x.text] : p \in Paths, x \in Samples}
    \cup {[path |-> p, readable |-> FALSE, text |-> ""] : p \in Paths}

\* The texts of message bodies, each with what JSON.parse returns for it.
Bodies == {
    [text |-> "[{\"id\":1}]", json |-> Arr(<<Obj(<<Entry("id", Num(1))>>)>>)],
    [text |-> "{\"error\":\"not found\"}",
        json |-> Obj(<<Entry("error", Str("not found"))>>)],
    [text |-> "{\"name\":\"Rex\",\"tags\":[]}",
        json |-> Obj(<<Entry("name", Str("Rex")), Entry("tags", Arr(<<>>))>>)],
    [text |-> "42", json |-> Num(42)],
    [text |-> "<pet/>", json |-> Thrown]
}

JSONparse(text) == (CHOOSE x \in Samples \cup Bodies : x.text = text).json

YAMLparse(text) == (CHOOSE x \in Samples : x.text = text).yaml

Returned(format, c) == [status |-> "returned", format |-> format, content |-> c]
Threw(kind) == [status |-> "thrown", error |-> kind]

\* x.includes('postman') for the value of info.schema: a string searches for
\* a substring, an array for an element, anything else has no such method.
IncludesPostman(x) ==
    CASE x.t = "string" -> Includes(x.s, "postman")
      [] x.t = "array" -> \E i \in 1..Len(x.a) : x.a[i] = Str("postman")
      [] OTHER -> FALSE

HasIncludes(x) == x.t \in {"string", "array"}

DetectIdle ==
    /\ pc = "idle"
    /\ input = [path |-> "", readable |-> FALSE, text |-> ""]
    /\ content = Undefined
    /\ parsed = Undefined
    /\ attempts = <<>>
    /\ detection = Pending

DetectInit ==
    /\ pc = "read"
    /\ input \in Files
    /\ content = Undefined
    /\ parsed = Undefined
    /\ attempts = <<>>
    /\ detection = Pending

ReadFile ==
    /\ pc = "read"
    /\ IF input.readable
       THEN /\ content' = Str(input.text)
            /\ pc' = "extension"
            /\ UNCHANGED detection
       ELSE /\ detection' = Threw("ParseError")
            /\ pc' = "done"
            /\ UNCHANGED content
    /\ UNCHANGED <<input, parsed, attempts>>
    /\ UNCHANGED notDetector

\* CheckExtension with the .apiblueprint suffix forgotten.
CheckExtension_ApibOnly ==
    /\ pc = "extension"
    /\ IF EndsWith(input.path, ".apib")
       THEN /\ detection' = Returned("apib", content)
            /\ pc' = "done"
       ELSE /\ pc' = "marker"
            /\ UNCHANGED detection
    /\ UNCHANGED <<input, content, parsed, attempts>>
    /\ UNCHANGED notDetector

CheckExtension ==
    /\ pc = "extension"
    /\ IF EndsWith(input.path, ".apib") \/ EndsWith(input.path, ".apiblueprint")
       THEN /\ detection' = Returned("apib", content)
            /\ pc' = "done"
       ELSE /\ pc' = "marker"
            /\ UNCHANGED detection
    /\ UNCHANGED <<input, content, parsed, attempts>>
    /\ UNCHANGED notDetector

CheckMarker ==
    /\ pc = "marker"
    /\ IF StartsWith(Trim(content.s), "FORMAT: 1A")
       THEN /\ detection' = Returned("apib", content)
            /\ pc' = "done"
       ELSE /\ pc' = "json"
            /\ UNCHANGED detection
    /\ UNCHANGED <<input, content, parsed, attempts>>
    /\ UNCHANGED notDetector

TryJSON ==
    /\ pc = "json"
    /\ attempts' = Append(attempts, "json")
    /\ IF JSONparse(content.s) # Thrown
       THEN /\ parsed' = JSONparse(content.s)
            /\ pc' = "classify"
       ELSE /\ pc' = "yaml"
            /\ UNCHANGED parsed
    /\ UNCHANGED <<input, content, detection>>
    /\ UNCHANGED notDetector

TryYAML ==
    /\ pc = "yaml"
    /\ attempts' = Append(attempts, "yaml")
    /\ IF YAMLparse(content.s) # Thrown
       THEN /\ parsed' = YAMLparse(content.s)
            /\ pc' = "classify"
            /\ UNCHANGED detection
       ELSE /\ detection' = Threw("ParseError")
            /\ pc' = "done"
            /\ UNCHANGED parsed
    /\ UNCHANGED <<input, content>>
    /\ UNCHANGED notDetector

\* The classification of the parsed content. Reading a property of null
\* throws a TypeError, and so does calling includes on a value without it.
Classify ==
    /\ pc = "classify"
    /\ pc' = "done"
    /\ detection' =
         IF IsNullish(parsed) THEN Threw("TypeError")
         ELSE IF Truthy(Get(parsed, "openapi")) THEN Returned("openapi", parsed)
         ELSE IF Truthy(Get(parsed, "swagger")) THEN Returned("swagger", parsed)
         ELSE LET schema == OptGet(Get(parsed, "info"), "schema") IN
              IF IsNullish(schema) THEN Returned("unknown", parsed)
              ELSE IF ~HasIncludes(schema) THEN Threw("TypeError")
              ELSE IF IncludesPostman(schema) THEN Returned("postman", parsed)
              ELSE Returned("unknown", parsed)
    /\ UNCHANGED <<input, content, parsed, attempts>>
    /\ UNCHANGED notDetector

detectFormat ==
    \/ ReadFile
    \/ CheckExtension
    \/ CheckMarker
    \/ TryJSON
    \/ TryYAML
    \/ Classify

----------------------------------------------------------------------------
(* Schema inference: parseSchema (openapi.ts), inferSchemaFromValue and    *)
(* mapTypeToSchemaType (apib-parser.ts). A SchemaType is the JavaScript    *)
(* object the code builds, with its properties in the order of the object  *)
(* literal; a property written with the value undefined is an entry whose  *)
(* value is Undefined.                                                     *)

\* Object.entries of an object.
Entries(v) == IF v.t = "object" THEN v.o ELSE <<>>

BareObject == Obj(<<Entry("type", Str("object"))>>)

\* parseSchema losing the declared required list.
RECURSIVE parseSchema_NoRequired(_)
parseSchema_NoRequired(node) ==
    IF ~Truthy(node) THEN Obj(<<Entry("type", Str("string"))>>)
    ELSE IF Get(node, "type") = Str("object") \/ Truthy(Get(node, "properties"))
    THEN LET declared == Entries(Or(Get(node, "properties"), Obj(<<>>)))
             properties == [i \in 1..Len(declared) |->
                               Entry(declared[i].k, parseSchema_NoRequired(declared[i].v))]
         IN Obj(<<Entry("type", Str("object")),
                  Entry("properties", Obj(properties)),
                  Entry("required", Arr(<<>>))>>)
    ELSE IF Get(node, "type") = Str("array")
    THEN Obj(<<Entry("type", Str("array")),
               Entry("items", parseSchema_NoRequired(Get(node, "items")))>>)
    ELSE IF Truthy(Get(node, "enum"))
    THEN Obj(<<Entry("type", Or(Get(node, "type"), Str("string"))),
               Entry("enum", Get(node, "enum"))>>)
    ELSE Obj(<<Entry("type", Or(Get(node, "type"), Str("string"))),
               Entry("format", Get(node, "format"))>>)

\* parseSchema dropping the format of a leaf.
RECURSIVE parseSchema_NoFormat(_)
parseSchema_NoFormat(node) ==
    IF ~Truthy(node) THEN Obj(<<Entry("type", Str("string"))>>)
    ELSE IF Get(node, "type") = Str("object") \/ Truthy(Get(node, "properties"))
    THEN LET declared == Entries(Or(Get(node, "properties"), Obj(<<>>)))
             properties == [i \in 1..Len(declared) |->
                               Entry(declared[i].k, parseSchema_NoFormat(declared[i].v))]
             required == Or(Get(node, "required"), Arr(<<>>))
         IN Obj(<<Entry("type", Str("object")),
                  Entry("properties", Obj(properties)),
                  Entry("required", required)>>)
    ELSE IF Get(node, "type") = Str("array")
    THEN Obj(<<Entry("type", Str("array")),
               Entry("items", parseSchema_NoFormat(Get(node, "items")))>>)
    ELSE IF Truthy(Get(node, "enum"))
    THEN Obj(<<Entry("type", Or(Get(node, "type"), Str("string"))),
               Entry("enum", Get(node, "enum"))>>)
    ELSE Obj(<<Entry("type", Or(Get(node, "type"), Str("string")))>>)

\* parseSchema taking the items of an array from the items of its items.
RECURSIVE parseSchema_ItemsOfItems(_)
parseSchema_ItemsOfItems(node) ==
    IF ~Truthy(node) THEN Obj(<<Entry("type", Str("string"))>>)
    ELSE IF Get(node, "type") = Str("object") \/ Truthy(Get(node, "properties"))
    THEN LET declared == Entries(Or(Get(node, "properties"), Obj(<<>>)))
             properties == [i \in 1..Len(declared) |->
                               Entry(declared[i].k, parseSchema_ItemsOfItems(declared[i].v))]
             required == Or(Get(node, "required"), Arr(<<>>))
         IN Obj(<<Entry("type", Str("object")),
                  Entry("properties", Obj(properties)),
                  Entry("required", required)>>)
    ELSE IF Get(node, "type") = Str("array")
    THEN Obj(<<Entry("type", Str("array")),
               Entry("items", parseSchema_ItemsOfItems(Get(Get(node, "items"), "items")))>>)
    ELSE IF Truthy(Get(node, "enum"))
    THEN Obj(<<Entry("type", Or(Get(node, "type"), Str("string"))),
               Entry("enum", Get(node, "enum"))>>)
    ELSE Obj(<<Entry("type", Or(Get(node, "type"), Str("string"))),
               Entry("format", Get(node, "format"))>>)

RECURSIVE parseSchema(_)
parseSchema(node) ==
    IF ~Truthy(node) THEN Obj(<<Entry("type", Str("string"))>>)
    ELSE IF Get(node, "type") = Str("object") \/ Truthy(Get(node, "properties"))
    THEN LET declared == Entries(Or(Get(node, "properties"), Obj(<<>>)))
             properties == [i \in 1..Len(declared) |->
                               Entry(declared[i].k, parseSchema(declared[i].v))]
             required == Or(Get(node, "required"), Arr(<<>>))
         IN Obj(<<Entry("type", Str("object")),
                  Entry("properties", Obj(properties)),
                  Entry("required", required)>>)
    ELSE IF Get(node, "type") = Str("array")
    THEN Obj(<<Entry("type", Str("array")),
               Entry("items", parseSchema(Get(node, "items")))>>)
    ELSE IF Truthy(Get(node, "enum"))
    THEN Obj(<<Entry("type", Or(Get(node, "type"), Str("string"))),
               Entry("enum", Get(node, "enum"))>>)
    ELSE Obj(<<Entry("type", Or(Get(node, "type"), Str("string"))),
               Entry("format", Get(node, "format"))>>)

mapTypeToSchemaType(element) ==
    CASE element = "string" -> Obj(<<Entry("type", Str("string"))>>)
      [] element = "number" -> Obj(<<Entry("type", Str("number"))>>)
      [] element = "boolean" -> Obj(<<Entry("type", Str("boolean"))>>)
      [] element = "array" -> Obj(<<Entry("type", Str("array")),
                                    Entry("items", BareObject)>>)
      [] element = "object" -> BareObject
      [] OTHER -> Obj(<<Entry("type", Str("string"))>>)

\* inferSchemaFromValue taking an array's items from its last element.
RECURSIVE inferSchemaFromValue_LastItem(_)
inferSchemaFromValue_LastItem(v) ==
    IF v.t = "array"
    THEN LET itemSchema == IF Len(v.a) > 0
                           THEN inferSchemaFromValue_LastItem(v.a[Len(v.a)])
                           ELSE BareObject
         IN Obj(<<Entry("type", Str("array")), Entry("items", itemSchema)>>)
    ELSE IF v.t = "object"
    THEN LET properties == [i \in 1..Len(v.o) |->
                               Entry(v.o[i].k, inferSchemaFromValue_LastItem(v.o[i].v))]
             required == [i \in 1..Len(v.o) |-> Str(v.o[i].k)]
         IN Obj(<<Entry("type", Str("object")),
                  Entry("properties", Obj(properties)),
                  Entry("required", Arr(required))>>)
    ELSE IF v.t = "string" THEN Obj(<<Entry("type", Str("string"))>>)
    ELSE IF v.t = "number" THEN Obj(<<Entry("type", Str("number"))>>)
    ELSE IF v.t = "boolean" THEN Obj(<<Entry("type", Str("boolean"))>>)
    ELSE BareObject

\* inferSchemaFromValue giving an empty array the items of an array of objects.
RECURSIVE inferSchemaFromValue_DeepDefault(_)
inferSchemaFromValue_DeepDefault(v) ==
    IF v.t = "array"
    THEN LET itemSchema == IF Len(v.a) > 0
                           THEN inferSchemaFromValue_DeepDefault(v.a[1])
                           ELSE Obj(<<Entry("type", Str("array")),
                                      Entry("items", BareObject)>>)
         IN Obj(<<Entry("type", Str("array")), Entry("items", itemSchema)>>)
    ELSE IF v.t = "object"
    THEN LET properties == [i \in 1..Len(v.o) |->
                               Entry(v.o[i].k, inferSchemaFromValue_DeepDefault(v.o[i].v))]
             required == [i \in 1..Len(v.o) |-> Str(v.o[i].k)]
         IN Obj(<<Entry("type", Str("object")),
                  Entry("properties", Obj(properties)),
                  Entry("required", Arr(required))>>)
    ELSE IF v.t = "string" THEN Obj(<<Entry("type", Str("string"))>>)
    ELSE IF v.t = "number" THEN Obj(<<Entry("type", Str("number"))>>)
    ELSE IF v.t = "boolean" THEN Obj(<<Entry("type", Str("boolean"))>>)
    ELSE BareObject

RECURSIVE inferSchemaFromValue(_)
inferSchemaFromValue(v) ==
    IF v.t = "array"
    THEN LET itemSchema == IF Len(v.a) > 0
                           THEN inferSchemaFromValue(v.a[1])
                           ELSE BareObject
         IN Obj(<<Entry("type", Str("array")), Entry("items", itemSchema)>>)
    ELSE IF v.t = "object"
    THEN LET properties == [i \in 1..Len(v.o) |->
                               Entry(v.o[i].k, inferSchemaFromValue(v.o[i].v))]
             required == [i \in 1..Len(v.o) |-> Str(v.o[i].k)]
         IN Obj(<<Entry("type", Str("object")),
                  Entry("properties", Obj(properties)),
                  Entry("required", Arr(required))>>)
    ELSE IF v.t = "string" THEN Obj(<<Entry("type", Str("string"))>>)
    ELSE IF v.t = "number" THEN Obj(<<Entry("type", Str("number"))>>)
    ELSE IF v.t = "boolean" THEN Obj(<<Entry("type", Str("boolean"))>>)
    ELSE BareObject

\* The values JSON.parse can return, to a bounded nesting depth. Below the
\* outermost level an array or object holds one nested value and at most
\* one further leaf.
MaxDepth == 2

Leaves == {Null, Bool(TRUE), Num(1), Str("x")}

Fillers == {Null, Str("x")}

Keys == {"id", "name"}

RECURSIVE JSONValues(_)
JSONValues(d) ==
    IF d = 0 THEN Leaves \cup {Arr(<<>>), Obj(<<>>)}
    ELSE LET Sub == JSONValues(d - 1) IN
         Sub
         \cup {Arr(<<v>>) : v \in Sub}
         \cup {Arr(<<v, w>>) : v \in Sub, w \in Fillers}
         \cup {Arr(<<w, v>>) : v \in Sub, w \in Fillers}
         \cup {Obj(<<Entry(k, v)>>) : k \in Keys, v \in Sub}
         \cup {Obj(<<Entry("id", v), Entry("name", w)>>) : v \in Sub, w \in Fillers}
         \cup {Obj(<<Entry("name", w), Entry("id", v)>>) : v \in Sub, w \in Fillers}

\* Declared schema nodes of a document, to the same nesting depth.
TypeNames == {"string", "number", "integer", "boolean", "file"}

LeafNodes ==
    {Null, Obj(<<>>)}
    \cup {Obj(<<Entry("type", Str(ty))>>) : ty \in TypeNames}
    \cup {Obj(<<Entry("type", Str("string")), Entry("format", Str("date-time"))>>),
          Obj(<<Entry("type", Str("integer")), Entry("format", Str("int64"))>>),
          Obj(<<Entry("format", Str("uuid"))>>),
          Obj(<<Entry("type", Str("string")),
                Entry("enum", Arr(<<Str("asc"), Str("desc")>>))>>),
          Obj(<<Entry("enum", Arr(<<Str("asc")>>)), Entry("format", Str("uuid"))>>),
          Obj(<<Entry("$ref", Str("#/components/schemas/Pet"))>>),
          Obj(<<Entry("type", Str("object"))>>),
          Obj(<<Entry("type", Str("array"))>>),
          Obj(<<Entry("type", Str("string")), Entry("properties", Obj(<<>>))>>)}

RECURSIVE SchemaNodes(_)
SchemaNodes(d) ==
    IF d = 0 THEN LeafNodes
    ELSE LET Sub == SchemaNodes(d - 1) IN
         Sub
         \cup {Obj(<<Entry("type", Str("array")), Entry("items", n)>>) : n \in Sub}
         \cup {Obj(<<Entry("type", Str("object")),
                     Entry("properties", Obj(<<Entry(k, n)>>))>>) : k \in Keys, n \in Sub}
         \cup {Obj(<<Entry("properties", Obj(<<Entry("id", n)>>)),
                     Entry("required", Arr(<<Str("id"), Str("ghost")>>))>>) : n \in Sub}
         \cup {Obj(<<Entry("type", Str("object")),
                     Entry("properties", Obj(<<Entry("id", n), Entry("name", m)>>)),
                     Entry("required", Arr(<<Str("name")>>))>>) :
                  n \in Sub, m \in {Null, Obj(<<Entry("type", Str("string"))>>)}}

InferenceIdle ==
    /\ call = "none"
    /\ value = Undefined
    /\ schemaType = Pending

InferenceInit ==
    /\ \/ call = "inferSchemaFromValue" /\ value \in JSONValues(MaxDepth)
       \/ call = "parseSchema" /\ value \in SchemaNodes(MaxDepth)
    /\ schemaType = Pending

CallInferSchemaFromValue ==
    /\ call = "inferSchemaFromValue"
    /\ schemaType = Pending
    /\ schemaType' = inferSchemaFromValue(value)
    /\ UNCHANGED <<call, value>>
    /\ UNCHANGED notInference

CallParseSchema ==
    /\ call = "parseSchema"
    /\ schemaType = Pending
    /\ schemaType' = parseSchema(value)
    /\ UNCHANGED <<call, value>>
    /\ UNCHANGED notInference

----------------------------------------------------------------------------
(* OpenAPI/Swagger normalizer: parseOpenAPI (openapi.ts). The documents    *)
(* considered hold objects, arrays and strings where the code expects      *)
(* them: servers, parameters and the security scheme maps have the shape   *)
(* the formats give them, and path items, responses and parameters are     *)
(* objects.                                                                *)

\* Object.values(v)[0]
FirstValue(v) == IF Len(Entries(v)) > 0 THEN Entries(v)[1].v ELSE Undefined

\* getBaseUrl that looks at the host before the servers.
getBaseUrl_HostFirst(doc) ==
    LET servers == Get(doc, "servers") IN
    IF Truthy(servers) /\ servers.t = "array" /\ Len(servers.a) > 0
       /\ ~Truthy(Get(doc, "host"))
    THEN Get(servers.a[1], "url")
    ELSE IF Truthy(Get(doc, "host"))
    THEN LET schemes == Get(doc, "schemes")
             first == IF schemes.t = "array" /\ Len(schemes.a) > 0
                      THEN schemes.a[1] ELSE Undefined
             scheme == Or(first, Str("https"))
             basePath == Or(Get(doc, "basePath"), Str(""))
         IN Str(scheme.s \o "://" \o Get(doc, "host").s \o basePath.s)
    ELSE Str("")

getBaseUrl(doc) ==
    LET servers == Get(doc, "servers") IN
    IF Truthy(servers) /\ servers.t = "array" /\ Len(servers.a) > 0
    THEN Get(servers.a[1], "url")
    ELSE IF Truthy(Get(doc, "host"))
    THEN LET schemes == Get(doc, "schemes")
             first == IF schemes.t = "array" /\ Len(schemes.a) > 0
                      THEN schemes.a[1] ELSE Undefined
             scheme == Or(first, Str("https"))
             basePath == Or(Get(doc, "basePath"), Str(""))
         IN Str(scheme.s \o "://" \o Get(doc, "host").s \o basePath.s)
    ELSE Str("")

LastValue(v) == IF Len(Entries(v)) > 0 THEN Entries(v)[Len(Entries(v))].v ELSE Undefined

\* detectAuth reading the last declared scheme.
detectAuth_LastScheme(doc) ==
    LET securitySchemes ==
            Or(OptGet(Get(doc, "components"), "securitySchemes"),
               Or(Get(doc, "securityDefinitions"), Obj(<<>>)))
        firstScheme == LastValue(securitySchemes)
        type == Get(firstScheme, "type")
    IN IF ~Truthy(firstScheme) THEN Obj(<<Entry("type", Str("none"))>>)
       ELSE IF type = Str("apiKey")
       THEN Obj(<<Entry("type", Str("api-key")),
                  Entry("location", IF Get(firstScheme, "in") = Str("header")
                                    THEN Str("header") ELSE Str("query")),
                  Entry("name", Get(firstScheme, "name")),
                  Entry("description", Get(firstScheme, "description"))>>)
       ELSE IF type = Str("http")
       THEN IF Get(firstScheme, "scheme") = Str("bearer")
            THEN Obj(<<Entry("type", Str("bearer")),
                       Entry("description", Get(firstScheme, "description"))>>)
            ELSE IF Get(firstScheme, "scheme") = Str("basic")
            THEN Obj(<<Entry("type", Str("basic")),
                       Entry("description", Get(firstScheme, "description"))>>)
            ELSE Obj(<<Entry("type", Str("none"))>>)
       ELSE IF type = Str("oauth2")
       THEN Obj(<<Entry("type", Str("oauth")),
                  Entry("description", Get(firstScheme, "description"))>>)
       ELSE Obj(<<Entry("type", Str("none"))>>)

detectAuth(doc) ==
    LET securitySchemes ==
            Or(OptGet(Get(doc, "components"), "securitySchemes"),
               Or(Get(doc, "securityDefinitions"), Obj(<<>>)))
        firstScheme == FirstValue(securitySchemes)
        type == Get(firstScheme, "type")
    IN IF ~Truthy(firstScheme) THEN Obj(<<Entry("type", Str("none"))>>)
       ELSE IF type = Str("apiKey")
       THEN Obj(<<Entry("type", Str("api-key")),
                  Entry("location", IF Get(firstScheme, "in") = Str("header")
                                    THEN Str("header") ELSE Str("query")),
                  Entry("name", Get(firstScheme, "name")),
                  Entry("description", Get(firstScheme, "description"))>>)
       ELSE IF type = Str("http")
       THEN IF Get(firstScheme, "scheme") = Str("bearer")
            THEN Obj(<<Entry("type", Str("bearer")),
                       Entry("description", Get(firstScheme, "description"))>>)
            ELSE IF Get(firstScheme, "scheme") = Str("basic")
            THEN Obj(<<Entry("type", Str("basic")),
                       Entry("description", Get(firstScheme, "description"))>>)
            ELSE Obj(<<Entry("type", Str("none"))>>)
       ELSE IF type = Str("oauth2")
       THEN Obj(<<Entry("type", Str("oauth")),
                  Entry("description", Get(firstScheme, "description"))>>)
       ELSE Obj(<<Entry("type", Str("none"))>>)

\* params.map(...).filter(Boolean): the entries mapped to null are dropped.
\* parseParameters keeping the cookie parameters too.
parseParameters_KeepCookie(params) ==
    LET kept == SelectSeq(params.a, LAMBDA param :
                    /\ ~Truthy(Get(param, "$ref"))
                    /\ Get(param, "in") \in {Str("path"), Str("query"), Str("header"),
                                             Str("cookie")})
    IN [i \in 1..Len(kept) |->
          LET param == kept[i]
              schema == Or(Get(param, "schema"),
                           Obj(<<Entry("type", Get(param, "type"))>>))
          IN Obj(<<Entry("name", Get(param, "name")),
                   Entry("in", Get(param, "in")),
                   Entry("required", Or(Get(param, "required"), Bool(FALSE))),
                   Entry("description", Or(Get(param, "description"), Str(""))),
                   Entry("schema", parseSchema(schema))>>)]

parseParameters(params) ==
    LET kept == SelectSeq(params.a, LAMBDA param :
                    /\ ~Truthy(Get(param, "$ref"))
                    /\ Get(param, "in") \in {Str("path"), Str("query"), Str("header")})
    IN [i \in 1..Len(kept) |->
          LET param == kept[i]
              schema == Or(Get(param, "schema"),
                           Obj(<<Entry("type", Get(param, "type"))>>))
          IN Obj(<<Entry("name", Get(param, "name")),
                   Entry("in", Get(param, "in")),
                   Entry("required", Or(Get(param, "required"), Bool(FALSE))),
                   Entry("description", Or(Get(param, "description"), Str(""))),
                   Entry("schema", parseSchema(schema))>>)]

\* parseOperation taking the last successful response.
parseOperation_LastSuccess(path, method, operation, pathItem) ==
    LET pathLevel == IF Truthy(Get(pathItem, "parameters"))
                     THEN parseParameters(Get(pathItem, "parameters")) ELSE <<>>
        operationLevel == IF Truthy(Get(operation, "parameters"))
                          THEN parseParameters(Get(operation, "parameters")) ELSE <<>>
        parameters == pathLevel \o operationLevel
        body == Get(operation, "requestBody")
        jsonContent == Get(Or(Get(body, "content"), Obj(<<>>)), "application/json")
        requestBody ==
            IF Truthy(body) /\ Truthy(OptGet(jsonContent, "schema"))
            THEN Obj(<<Entry("description", Or(Get(body, "description"), Str(""))),
                       Entry("required", Or(Get(body, "required"), Bool(FALSE))),
                       Entry("contentType", Str("application/json")),
                       Entry("schema", parseSchema(Get(jsonContent, "schema")))>>)
            ELSE Undefined
        responses == Or(Get(operation, "responses"), Obj(<<>>))
        codes == Entries(responses)
        successful == SelectSeq(codes, LAMBDA e : StartsWith(e.k, "2"))
        successCode == IF Len(successful) > 0 THEN successful[Len(successful)].k ELSE "200"
        successResponse == Or(Get(responses, successCode), Obj(<<>>))
        responseContent == OptGet(Get(successResponse, "content"), "application/json")
        response ==
            Obj(<<Entry("statusCode", parseInt(successCode)),
                  Entry("description", Or(Get(successResponse, "description"), Str(""))),
                  Entry("contentType", Str("application/json")),
                  Entry("schema", IF Truthy(OptGet(responseContent, "schema"))
                                  THEN parseSchema(Get(responseContent, "schema"))
                                  ELSE BareObject)>>)
        failed == SelectSeq(codes, LAMBDA e : ~StartsWith(e.k, "2") /\ e.k # "default")
        errors ==
            [i \in 1..Len(failed) |->
               LET code == failed[i].k
                   errorResp == failed[i].v
                   errorContent == OptGet(Get(errorResp, "content"), "application/json")
               IN Obj(<<Entry("statusCode", parseInt(code)),
                        Entry("description",
                              Or(Get(errorResp, "description"), Str("Error " \o code))),
                        Entry("schema", IF Truthy(OptGet(errorContent, "schema"))
                                        THEN parseSchema(Get(errorContent, "schema"))
                                        ELSE Undefined)>>)]
    IN Obj(<<Entry("id", Or(Get(operation, "operationId"),
                            Str(method \o "_" \o ReplaceAll(path, "/", "_")))),
             Entry("method", Str(ToUpperCase(method))),
             Entry("path", Str(path)),
             Entry("description", Or(Get(operation, "description"),
                                     Or(Get(operation, "summary"), Str("")))),
             Entry("parameters", Arr(parameters)),
             Entry("requestBody", requestBody),
             Entry("response", response),
             Entry("errors", Arr(errors))>>)

\* parseOperation counting the default response among the errors.
parseOperation_DefaultFails(path, method, operation, pathItem) ==
    LET pathLevel == IF Truthy(Get(pathItem, "parameters"))
                     THEN parseParameters(Get(pathItem, "parameters")) ELSE <<>>
        operationLevel == IF Truthy(Get(operation, "parameters"))
                          THEN parseParameters(Get(operation, "parameters")) ELSE <<>>
        parameters == pathLevel \o operationLevel
        body == Get(operation, "requestBody")
        jsonContent == Get(Or(Get(body, "content"), Obj(<<>>)), "application/json")
        requestBody ==
            IF Truthy(body) /\ Truthy(OptGet(jsonContent, "schema"))
            THEN Obj(<<Entry("description", Or(Get(body, "description"), Str(""))),
                       Entry("required", Or(Get(body, "required"), Bool(FALSE))),
                       Entry("contentType", Str("application/json")),
                       Entry("schema", parseSchema(Get(jsonContent, "schema")))>>)
            ELSE Undefined
        responses == Or(Get(operation, "responses"), Obj(<<>>))
        codes == Entries(responses)
        successful == SelectSeq(codes, LAMBDA e : StartsWith(e.k, "2"))
        successCode == IF Len(successful) > 0 THEN successful[1].k ELSE "200"
        successResponse == Or(Get(responses, successCode), Obj(<<>>))
        responseContent == OptGet(Get(successResponse, "content"), "application/json")
        response ==
            Obj(<<Entry("statusCode", parseInt(successCode)),
                  Entry("description", Or(Get(successResponse, "description"), Str(""))),
                  Entry("contentType", Str("application/json")),
                  Entry("schema", IF Truthy(OptGet(responseContent, "schema"))
                                  THEN parseSchema(Get(responseContent, "schema"))
                                  ELSE BareObject)>>)
        failed == SelectSeq(codes, LAMBDA e : ~StartsWith(e.k, "2"))
        errors ==
            [i \in 1..Len(failed) |->
               LET code == failed[i].k
                   errorResp == failed[i].v
                   errorContent == OptGet(Get(errorResp, "content"), "application/json")
               IN Obj(<<Entry("statusCode", parseInt(code)),
                        Entry("description",
                              Or(Get(errorResp, "description"), Str("Error " \o code))),
                        Entry("schema", IF Truthy(OptGet(errorContent, "schema"))
                                        THEN parseSchema(Get(errorContent, "schema"))
                                        ELSE Undefined)>>)]
    IN Obj(<<Entry("id", Or(Get(operation, "operationId"),
                            Str(method \o "_" \o ReplaceAll(path, "/", "_")))),
             Entry("method", Str(ToUpperCase(method))),
             Entry("path", Str(path)),
             Entry("description", Or(Get(operation, "description"),
                                     Or(Get(operation, "summary"), Str("")))),
             Entry("parameters", Arr(parameters)),
             Entry("requestBody", requestBody),
             Entry("response", response),
             Entry("errors", Arr(errors))>>)

\* parseOperation taking the request body from the first media type.
parseOperation_AnyMediaType(path, method, operation, pathItem) ==
    LET pathLevel == IF Truthy(Get(pathItem, "parameters"))
                     THEN parseParameters(Get(pathItem, "parameters")) ELSE <<>>
        operationLevel == IF Truthy(Get(operation, "parameters"))
                          THEN parseParameters(Get(operation, "parameters")) ELSE <<>>
        parameters == pathLevel \o operationLevel
        body == Get(operation, "requestBody")
        jsonContent == FirstValue(Or(Get(body, "content"), Obj(<<>>)))
        requestBody ==
            IF Truthy(body) /\ Truthy(OptGet(jsonContent, "schema"))
            THEN Obj(<<Entry("description", Or(Get(body, "description"), Str(""))),
                       Entry("required", Or(Get(body, "required"), Bool(FALSE))),
                       Entry("contentType", Str("application/json")),
                       Entry("schema", parseSchema(Get(jsonContent, "schema")))>>)
            ELSE Undefined
        responses == Or(Get(operation, "responses"), Obj(<<>>))
        codes == Entries(responses)
        successful == SelectSeq(codes, LAMBDA e : StartsWith(e.k, "2"))
        successCode == IF Len(successful) > 0 THEN successful[1].k ELSE "200"
        successResponse == Or(Get(responses, successCode), Obj(<<>>))
        responseContent == OptGet(Get(successResponse, "content"), "application/json")
        response ==
            Obj(<<Entry("statusCode", parseInt(successCode)),
                  Entry("description", Or(Get(successResponse, "description"), Str(""))),
                  Entry("contentType", Str("application/json")),
                  Entry("schema", IF Truthy(OptGet(responseContent, "schema"))
                                  THEN parseSchema(Get(responseContent, "schema"))
                                  ELSE BareObject)>>)
        failed == SelectSeq(codes, LAMBDA e : ~StartsWith(e.k, "2") /\ e.k # "default")
        errors ==
            [i \in 1..Len(failed) |->
               LET code == failed[i].k
                   errorResp == failed[i].v
                   errorContent == OptGet(Get(errorResp, "content"), "application/json")
               IN Obj(<<Entry("statusCode", parseInt(code)),
                        Entry("description",
                              Or(Get(errorResp, "description"), Str("Error " \o code))),
                        Entry("schema", IF Truthy(OptGet(errorContent, "schema"))
                                        THEN parseSchema(Get(errorContent, "schema"))
                                        ELSE Undefined)>>)]
    IN Obj(<<Entry("id", Or(Get(operation, "operationId"),
                            Str(method \o "_" \o ReplaceAll(path, "/", "_")))),
             Entry("method", Str(ToUpperCase(method))),
             Entry("path", Str(path)),
             Entry("description", Or(Get(operation, "description"),
                                     Or(Get(operation, "summary"), Str("")))),
             Entry("parameters", Arr(parameters)),
             Entry("requestBody", requestBody),
             Entry("response", response),
             Entry("errors", Arr(errors))>>)

\* parseOperation leaving the slashes of the path in the id.
parseOperation_PathInId(path, method, operation, pathItem) ==
    LET pathLevel == IF Truthy(Get(pathItem, "parameters"))
                     THEN parseParameters(Get(pathItem, "parameters")) ELSE <<>>
        operationLevel == IF Truthy(Get(operation, "parameters"))
                          THEN parseParameters(Get(operation, "parameters")) ELSE <<>>
        parameters == pathLevel \o operationLevel
        body == Get(operation, "requestBody")
        jsonContent == Get(Or(Get(body, "content"), Obj(<<>>)), "application/json")
        requestBody ==
            IF Truthy(body) /\ Truthy(OptGet(jsonContent, "schema"))
            THEN Obj(<<Entry("description", Or(Get(body, "description"), Str(""))),
                       Entry("required", Or(Get(body, "required"), Bool(FALSE))),
                       Entry("contentType", Str("application/json")),
                       Entry("schema", parseSchema(Get(jsonContent, "schema")))>>)
            ELSE Undefined
        responses == Or(Get(operation, "responses"), Obj(<<>>))
        codes == Entries(responses)
        successful == SelectSeq(codes, LAMBDA e : StartsWith(e.k, "2"))
        successCode == IF Len(successful) > 0 THEN successful[1].k ELSE "200"
        successResponse == Or(Get(responses, successCode), Obj(<<>>))
        responseContent == OptGet(Get(successResponse, "content"), "application/json")
        response ==
            Obj(<<Entry("statusCode", parseInt(successCode)),
                  Entry("description", Or(Get(successResponse, "description"), Str(""))),
                  Entry("contentType", Str("application/json")),
                  Entry("schema", IF Truthy(OptGet(responseContent, "schema"))
                                  THEN parseSchema(Get(responseContent, "schema"))
                                  ELSE BareObject)>>)
        failed == SelectSeq(codes, LAMBDA e : ~StartsWith(e.k, "2") /\ e.k # "default")
        errors ==
            [i \in 1..Len(failed) |->
               LET code == failed[i].k
                   errorResp == failed[i].v
                   errorContent == OptGet(Get(errorResp, "content"), "application/json")
               IN Obj(<<Entry("statusCode", parseInt(code)),
                        Entry("description",
                              Or(Get(errorResp, "description"), Str("Error " \o code))),
                        Entry("schema", IF Truthy(OptGet(errorContent, "schema"))
                                        THEN parseSchema(Get(errorContent, "schema"))
                                        ELSE Undefined)>>)]
    IN Obj(<<Entry("id", Or(Get(operation, "operationId"),
                            Str(method \o "_" \o path))),
             Entry("method", Str(ToUpperCase(method))),
             Entry("path", Str(path)),
             Entry("description", Or(Get(operation, "description"),
                                     Or(Get(operation, "summary"), Str("")))),
             Entry("parameters", Arr(parameters)),
             Entry("requestBody", requestBody),
             Entry("response", response),
             Entry("errors", Arr(errors))>>)

parseOperation(path, method, operation, pathItem) ==
    LET pathLevel == IF Truthy(Get(pathItem, "parameters"))
                     THEN parseParameters(Get(pathItem, "parameters")) ELSE <<>>
        operationLevel == IF Truthy(Get(operation, "parameters"))
                          THEN parseParameters(Get(operation, "parameters")) ELSE <<>>
        parameters == pathLevel \o operationLevel
        body == Get(operation, "requestBody")
        jsonContent == Get(Or(Get(body, "content"), Obj(<<>>)), "application/json")
        requestBody ==
            IF Truthy(body) /\ Truthy(OptGet(jsonContent, "schema"))
            THEN Obj(<<Entry("description", Or(Get(body, "description"), Str(""))),
                       Entry("required", Or(Get(body, "required"), Bool(FALSE))),
                       Entry("contentType", Str("application/json")),
                       Entry("schema", parseSchema(Get(jsonContent, "schema")))>>)
            ELSE Undefined
        responses == Or(Get(operation, "responses"), Obj(<<>>))
        codes == Entries(responses)
        successful == SelectSeq(codes, LAMBDA e : StartsWith(e.k, "2"))
        successCode == IF Len(successful) > 0 THEN successful[1].k ELSE "200"
        successResponse == Or(Get(responses, successCode), Obj(<<>>))
        responseContent == OptGet(Get(successResponse, "content"), "application/json")
        response ==
            Obj(<<Entry("statusCode", parseInt(successCode)),
                  Entry("description", Or(Get(successResponse, "description"), Str(""))),
                  Entry("contentType", Str("application/json")),
                  Entry("schema", IF Truthy(OptGet(responseContent, "schema"))
                                  THEN parseSchema(Get(responseContent, "schema"))
                                  ELSE BareObject)>>)
        failed == SelectSeq(codes, LAMBDA e : ~StartsWith(e.k, "2") /\ e.k # "default")
        errors ==
            [i \in 1..Len(failed) |->
               LET code == failed[i].k
                   errorResp == failed[i].v
                   errorContent == OptGet(Get(errorResp, "content"), "application/json")
               IN Obj(<<Entry("statusCode", parseInt(code)),
                        Entry("description",
                              Or(Get(errorResp, "description"), Str("Error " \o code))),
                        Entry("schema", IF Truthy(OptGet(errorContent, "schema"))
                                        THEN parseSchema(Get(errorContent, "schema"))
                                        ELSE Undefined)>>)]
    IN Obj(<<Entry("id", Or(Get(operation, "operationId"),
                            Str(method \o "_" \o ReplaceAll(path, "/", "_")))),
             Entry("method", Str(ToUpperCase(method))),
             Entry("path", Str(path)),
             Entry("description", Or(Get(operation, "description"),
                                     Or(Get(operation, "summary"), Str("")))),
             Entry("parameters", Arr(parameters)),
             Entry("requestBody", requestBody),
             Entry("response", response),
             Entry("errors", Arr(errors))>>)

\* The methods list without its last two verbs.
methods_FiveVerbs == <<"get", "post", "put", "patch", "delete">>

methods == <<"get", "post", "put", "patch", "delete", "options", "head">>

\* The endpoints of one path item, in the order of the methods list.
RECURSIVE pathItemEndpoints(_, _, _)
pathItemEndpoints(path, pathItem, m) ==
    IF m > Len(methods) THEN <<>>
    ELSE LET operation == Get(pathItem, methods[m]) IN
         (IF Truthy(operation)
          THEN <<parseOperation(path, methods[m], operation, pathItem)>>
          ELSE <<>>)
         \o pathItemEndpoints(path, pathItem, m + 1)

RECURSIVE pathsEndpoints(_, _)
pathsEndpoints(paths, p) ==
    IF p > Len(paths) THEN <<>>
    ELSE pathItemEndpoints(paths[p].k, paths[p].v, 1) \o pathsEndpoints(paths, p + 1)

parseEndpoints(doc) ==
    pathsEndpoints(Entries(Or(Get(doc, "paths"), Obj(<<>>))), 1)

\* What parseOpenAPI(doc) returns or throws. spec.openapi?.startsWith on a
\* value that is not a string, and spec.info.title without info, throw a
\* TypeError.
parseOpenAPI(doc) ==
    LET openapi == Get(doc, "openapi")
        isSwagger2 == Get(doc, "swagger") = Str("2.0")
        isOpenAPI3 == openapi.t = "string" /\ StartsWith(openapi.s, "3.")
    IN IF ~IsNullish(openapi) /\ openapi.t # "string" THEN Threw("TypeError")
       ELSE IF ~isSwagger2 /\ ~isOpenAPI3 THEN Threw("Error")
       ELSE IF IsNullish(Get(doc, "info")) THEN Threw("TypeError")
       ELSE [status |-> "returned",
             schema |-> Obj(<<Entry("name", Or(Get(Get(doc, "info"), "title"), Str("API"))),
                              Entry("baseUrl", getBaseUrl(doc)),
                              Entry("auth", detectAuth(doc)),
                              Entry("endpoints", Arr(parseEndpoints(doc)))>>)]

\* The documents parseOpenAPI is applied to: one family varies the version
\* declaration and the info object, one the paths map, one the declared
\* schema nodes of a single operation.
Info == Obj(<<Entry("title", Str("Pets"))>>)

Document(paths) ==
    Obj(<<Entry("openapi", Str("3.0.1")), Entry("info", Info), Entry("paths", paths)>>)

Field(name, values) == {<<>>} \cup {<<Entry(name, v)>> : v \in values}

VersionDocuments ==
    {Obj(swagger \o openapi \o info \o <<Entry("paths", Obj(<<>>))>>) :
        swagger \in Field("swagger", {Str("2.0"), Str("1.2")}),
        openapi \in Field("openapi", {Str("3.0.1"), Str("3.1.0"), Str("2.5"), Num(3)}),
        info \in Field("info", {Info, Obj(<<>>)})}

Ok200 == Obj(<<Entry("200", Obj(<<Entry("description", Str("OK"))>>))>>)

Operation == Obj(<<Entry("responses", Ok200)>>)

NamedOperation ==
    Obj(<<Entry("operationId", Str("listPets")), Entry("responses", Ok200)>>)

PathLevelParameters ==
    Arr(<<Obj(<<Entry("name", Str("id")), Entry("in", Str("path")),
                Entry("required", Bool(TRUE)), Entry("type", Str("string"))>>)>>)

PathItems == {
    Obj(<<>>),
    Obj(<<Entry("get", Operation)>>),
    Obj(<<Entry("get", NamedOperation), Entry("post", Operation)>>),
    Obj(<<Entry("delete", Operation), Entry("get", Operation)>>),
    Obj(<<Entry("parameters", PathLevelParameters), Entry("get", Operation)>>),
    Obj(<<Entry("trace", Operation), Entry("options", Operation)>>),
    Obj(<<Entry("head", Operation), Entry("delete", Null)>>),
    Obj(<<Entry("post", Bool(TRUE)), Entry("get", Bool(FALSE))>>),
    Obj(<<Entry("put", Operation), Entry("patch", Operation),
          Entry("summary", Str("Pets"))>>)
}

PathKeys == {"/a", "/a/b", "/pets/{id}"}

MaxPaths == 2

\* Every paths map of at most n entries with distinct keys.
RECURSIVE PathMaps(_)
PathMaps(n) ==
    IF n = 0 THEN {<<>>}
    ELSE LET Shorter == PathMaps(n - 1) IN
         Shorter
         \cup {Append(m, Entry(k, item)) :
                 m \in {x \in Shorter : Len(x) = n - 1}, k \in PathKeys, item \in PathItems}

DistinctKeys(m) == \A i, j \in 1..Len(m) : m[i].k = m[j].k => i = j

PathsDocuments ==
    {Document(Obj(m)) : m \in {x \in PathMaps(MaxPaths) : DistinctKeys(x)}}
    \cup {Obj(<<Entry("swagger", Str("2.0")), Entry("info", Info)>>)}

JSONContent(node) ==
    Obj(<<Entry("application/json", Obj(<<Entry("schema", node)>>))>>)

SchemaDocuments ==
    {Document(Obj(<<Entry("/pets", Obj(<<Entry("post",
        Obj(<<Entry("parameters",
                Arr(<<Obj(<<Entry("name", Str("limit")), Entry("in", Str("query")),
                            Entry("schema", node)>>)>>)),
              Entry("requestBody", Obj(<<Entry("content", JSONContent(node))>>)),
              Entry("responses",
                Obj(<<Entry("201", Obj(<<Entry("content", JSONContent(node))>>)),
                      Entry("404", Obj(<<Entry("content", JSONContent(node))>>))>>))>>)
      )>>))>>)) : node \in SchemaNodes(MaxDepth)}

\* The documents that vary the declared security schemes: none, one or two
\* of them, under components.securitySchemes or securityDefinitions.
SecuritySchemes == {
    Obj(<<Entry("type", Str("apiKey")), Entry("in", Str("header")),
          Entry("name", Str("X-Token"))>>),
    Obj(<<Entry("type", Str("apiKey")), Entry("in", Str("query")),
          Entry("name", Str("token")), Entry("description", Str("Key"))>>),
    Obj(<<Entry("type", Str("apiKey")), Entry("in", Str("cookie")),
          Entry("name", Str("sid"))>>),
    Obj(<<Entry("type", Str("apiKey")), Entry("name", Str("token"))>>),
    Obj(<<Entry("type", Str("http")), Entry("scheme", Str("bearer"))>>),
    Obj(<<Entry("type", Str("http")), Entry("scheme", Str("basic")),
          Entry("description", Str("Login"))>>),
    Obj(<<Entry("type", Str("http")), Entry("scheme", Str("digest"))>>),
    Obj(<<Entry("type", Str("http"))>>),
    Obj(<<Entry("type", Str("oauth2")), Entry("flow", Str("implicit"))>>),
    Obj(<<Entry("type", Str("openIdConnect"))>>),
    Obj(<<Entry("type", Str("basic"))>>),
    Obj(<<Entry("scheme", Str("bearer"))>>)
}

SchemeMaps ==
    {Obj(<<>>)}
    \cup {Obj(<<Entry("first", a)>>) : a \in SecuritySchemes}
    \cup {Obj(<<Entry("first", a), Entry("second", b)>>) :
             a \in SecuritySchemes, b \in SecuritySchemes}

AuthDocuments ==
    {Obj(<<Entry("openapi", Str("3.0.1")), Entry("info", Info),
           Entry("components", Obj(<<Entry("securitySchemes", m)>>))>>) : m \in SchemeMaps}
    \cup {Obj(<<Entry("swagger", Str("2.0")), Entry("info", Info),
                Entry("securityDefinitions", m)>>) : m \in SchemeMaps}
    \cup {Obj(<<Entry("openapi", Str("3.0.1")), Entry("info", Info),
                Entry("components", Obj(<<Entry("schemas", Obj(<<>>))>>)),
                Entry("securityDefinitions", Obj(<<Entry("first", a)>>))>>) :
             a \in SecuritySchemes}

\* The documents that vary the responses of one operation. The keys of a
\* responses map stand in the order Object.keys gives them: the status codes
\* ascending, then the other keys as written. Every subset of the keys is
\* declared; which entries carry a JSON schema, only another media type, or
\* no content rotates with the choice shift.
ResponseKeys == <<"100", "200", "201", "302", "404", "500", "default", "2XX">>

ResponseBodies ==
    <<  <<>>,
        <<Entry("content", JSONContent(Obj(<<Entry("type", Str("integer"))>>)))>>,
        <<Entry("content", Obj(<<Entry("application/xml",
              Obj(<<Entry("schema", Obj(<<Entry("type", Str("string"))>>))>>))>>))>>,
        <<Entry("content", JSONContent(Obj(<<Entry("properties",
              Obj(<<Entry("code", Obj(<<Entry("type", Str("string"))>>))>>))>>)))>>  >>

DeclaredResponse(i, shift) ==
    Obj(<<Entry("description", Str("response " \o ResponseKeys[i]))>>
        \o ResponseBodies[((i + shift) % 4) + 1])

RECURSIVE ResponseEntries(_, _, _)
ResponseEntries(chosen, shift, i) ==
    IF i > Len(ResponseKeys) THEN <<>>
    ELSE (IF i \in chosen THEN <<Entry(ResponseKeys[i], DeclaredResponse(i, shift))>>
          ELSE <<>>) \o ResponseEntries(chosen, shift, i + 1)

OperationDocument(operation) ==
    Document(Obj(<<Entry("/pets", Obj(<<Entry("get", operation)>>))>>))

ResponsesDocuments ==
    {OperationDocument(Obj(<<Entry("responses", Obj(ResponseEntries(chosen, shift, 1)))>>)) :
        chosen \in SUBSET (1..Len(ResponseKeys)), shift \in 0..3}
    \cup {OperationDocument(Obj(<<Entry("summary", Str("No responses"))>>)),
          OperationDocument(Obj(<<Entry("responses",
              Obj(<<Entry("200", Obj(<<>>)), Entry("404", Obj(<<>>))>>))>>))}

\* The documents that vary the parameters of a path item and of its
\* operation: each level declares none, or a list of one or two of the
\* parameters below.
DeclaredParameters == {
    Obj(<<Entry("name", Str("id")), Entry("in", Str("path")),
          Entry("required", Bool(TRUE)), Entry("schema", Obj(<<Entry("type", Str("integer"))>>))>>),
    Obj(<<Entry("name", Str("id")), Entry("in", Str("query")), Entry("type", Str("string"))>>),
    Obj(<<Entry("name", Str("X-Trace")), Entry("in", Str("header")),
          Entry("description", Str("Trace id"))>>),
    Obj(<<Entry("$ref", Str("#/components/parameters/limit"))>>),
    Obj(<<Entry("name", Str("pet")), Entry("in", Str("body")),
          Entry("schema", Obj(<<Entry("type", Str("object"))>>))>>),
    Obj(<<Entry("name", Str("photo")), Entry("in", Str("formData")),
          Entry("type", Str("file"))>>),
    Obj(<<Entry("name", Str("sid")), Entry("in", Str("cookie"))>>)
}

ParameterLists ==
    {<<>>}
    \cup {<<Entry("parameters", Arr(<<a>>))>> : a \in DeclaredParameters}
    \cup {<<Entry("parameters", Arr(<<a, b>>))>> :
             a \in DeclaredParameters, b \in DeclaredParameters}

ParametersDocuments ==
    {Obj(version \o <<Entry("info", Info), Entry("paths", Obj(<<Entry("/pets/{id}",
         Obj(pathLevel \o <<Entry("put",
             Obj(operationLevel \o <<Entry("responses", Ok200)>>))>>))>>))>>) :
        version \in {<<Entry("openapi", Str("3.0.1"))>>, <<Entry("swagger", Str("2.0"))>>},
        pathLevel \in ParameterLists, operationLevel \in ParameterLists}

\* The documents that vary the request body of one operation, and a
\* Swagger 2.0 operation whose body is a parameter.
RequestBodies ==
    {Obj(<<>>),
     Obj(<<Entry("description", Str("A pet")), Entry("required", Bool(TRUE))>>),
     Obj(<<Entry("content", Obj(<<>>))>>),
     Obj(<<Entry("content", Obj(<<Entry("application/json", Obj(<<>>))>>))>>),
     Obj(<<Entry("required", Bool(TRUE)),
           Entry("content", Obj(<<Entry("application/xml",
               Obj(<<Entry("schema", Obj(<<Entry("type", Str("object"))>>))>>))>>))>>),
     Obj(<<Entry("content", Obj(<<
               Entry("text/plain", Obj(<<Entry("schema", Obj(<<Entry("type", Str("string"))>>))>>)),
               Entry("application/json",
                     Obj(<<Entry("schema", Obj(<<Entry("type", Str("array"))>>))>>))>>))>>)}
    \cup {Obj(required \o <<Entry("content", JSONContent(node))>>) :
             required \in Field("required", {Bool(TRUE), Bool(FALSE)}),
             node \in LeafNodes}

RequestBodyDocuments ==
    {OperationDocument(Obj(<<Entry("requestBody", body), Entry("responses", Ok200)>>)) :
        body \in RequestBodies}
    \cup {Obj(<<Entry("swagger", Str("2.0")), Entry("info", Info),
                Entry("paths", Obj(<<Entry("/pets", Obj(<<Entry("post",
                    Obj(<<Entry("consumes", Arr(<<Str("application/json")>>)),
                          Entry("parameters", Arr(<<
                              Obj(<<Entry("name", Str("pet")), Entry("in", Str("body")),
                                    Entry("required", Bool(TRUE)),
                                    Entry("schema", node)>>)>>)),
                          Entry("responses", Ok200)>>))>>))>>))>> ) : node \in LeafNodes}
    \cup {Obj(<<Entry("swagger", Str("2.0")), Entry("info", Info),
                Entry("paths", Obj(<<Entry("/pets", Obj(<<
                    Entry("post", Obj(<<Entry("parameters", Arr(<<
                        Obj(<<Entry("name", Str("pet")), Entry("in", Str("body")),
                              Entry("schema", Obj(<<Entry("type", Str("object"))>>))>>)>>)),
                        Entry("responses", Ok200)>>)),
                    Entry("put", Obj(<<Entry("requestBody", body),
                                       Entry("responses", Ok200)>>))>>))>>))>>) :
              body \in RequestBodies}

\* The documents whose operations share an operationId, and whose paths
\* differ only by a slash and an underscore.
IdDocuments ==
    {Document(Obj(<<Entry("/a/b", Obj(first)), Entry("/a_b", Obj(second))>>)) :
        first \in {<<Entry("get", Operation)>>,
                   <<Entry("get", Operation), Entry("post", NamedOperation)>>,
                   <<Entry("get", Obj(<<Entry("operationId", Str("")),
                                        Entry("responses", Ok200)>>))>>},
        second \in {<<Entry("get", Operation)>>,
                    <<Entry("get", Operation), Entry("put", NamedOperation)>>,
                    <<Entry("get", NamedOperation), Entry("head", NamedOperation)>>}}

\* The documents that vary what the base URL is composed of: the servers
\* (absent, none, one, two), the host (absent, empty, a name), the schemes
\* (absent, none, one, two) and the basePath (absent, empty, a path), of an
\* OpenAPI 3 and of a Swagger 2.0 document alike.
Server(url) == Obj(<<Entry("url", Str(url)), Entry("description", Str("A server"))>>)

BaseUrlDocuments ==
    {Obj(version \o <<Entry("info", Info)>> \o servers \o host \o schemes \o basePath) :
        version \in {<<Entry("openapi", Str("3.0.1"))>>, <<Entry("swagger", Str("2.0"))>>},
        servers \in Field("servers", {Arr(<<>>), Arr(<<Server("https://a.x.com/v2")>>),
                                      Arr(<<Server("http://b.x.com"),
                                            Server("https://a.x.com/v2")>>)}),
        host \in Field("host", {Str(""), Str("api.x.com")}),
        schemes \in Field("schemes", {Arr(<<>>), Arr(<<Str("https")>>),
                                      Arr(<<Str("http"), Str("https")>>)}),
        basePath \in Field("basePath", {Str(""), Str("/v1")})}

Documents ==
    VersionDocuments \cup PathsDocuments \cup SchemaDocuments \cup AuthDocuments
    \cup ResponsesDocuments \cup ParametersDocuments \cup RequestBodyDocuments
    \cup IdDocuments \cup BaseUrlDocuments

OpenAPIIdle ==
    /\ spec = Undefined
    /\ apiSchema = Pending

OpenAPIInit ==
    /\ spec \in Documents
    /\ apiSchema = Pending

CallParseOpenAPI ==
    /\ spec # Undefined
    /\ apiSchema = Pending
    /\ apiSchema' = parseOpenAPI(spec)
    /\ UNCHANGED spec
    /\ UNCHANGED notOpenAPI

----------------------------------------------------------------------------
(* API Blueprint normalizer: parseAPIBlueprint (apib-parser.ts). The input  *)
(* is what drafter.parseSync gives for the content: it throws, or returns   *)
(* an object holding an error, or returns the parse result, an element tree *)
(* whose nodes are objects with the keys element, meta, attributes and      *)
(* content. An exception inside a helper is the value Thrown, handed up to  *)
(* the catch of parseAPIBlueprint.                                          *)

\* items.find(c => c.element === name)
Find(items, name) ==
    IF \E i \in 1..Len(items) : Get(items[i], "element") = Str(name)
    THEN LET first == CHOOSE i \in 1..Len(items) :
                          /\ Get(items[i], "element") = Str(name)
                          /\ \A j \in 1..(i - 1) : Get(items[j], "element") # Str(name)
         IN items[first]
    ELSE Undefined

\* v?.content.find(c => c.element === name), v?.content being an array or
\* undefined.
OptFind(v, name) ==
    IF OptGet(v, "content").t = "array" THEN Find(OptGet(v, "content").a, name)
    ELSE Undefined

hasClass(element, className) ==
    LET classes == OptGet(OptGet(element, "meta"), "classes")
    IN IF ~Truthy(classes) THEN FALSE
       ELSE IF Get(classes, "element") = Str("array")
            THEN \E i \in 1..Len(Get(classes, "content").a) :
                     Get(Get(classes, "content").a[i], "content") = Str(className)
            ELSE FALSE

\* The members of the metadata of the api categories whose key is HOST, in
\* the order the two loops of extractBaseUrl meet them.
IsHostMember(metaItem) ==
    /\ Get(metaItem, "element") = Str("member")
    /\ OptGet(OptGet(Get(metaItem, "content"), "key"), "content") = Str("HOST")

RECURSIVE hostMembers(_)
hostMembers(elements) ==
    IF elements = <<>> THEN <<>>
    ELSE LET element == Head(elements)
             metadata == OptGet(OptGet(element, "attributes"), "metadata")
         IN (IF /\ Get(element, "element") = Str("category")
                /\ hasClass(element, "api")
                /\ OptGet(metadata, "element") = Str("array")
             THEN SelectSeq(Get(metadata, "content").a, IsHostMember)
             ELSE <<>>) \o hostMembers(Tail(elements))

extractBaseUrl(ast) ==
    LET found == hostMembers(Get(ast, "content").a)
    IN IF found # <<>>
       THEN Get(Get(Get(found[1], "content"), "value"), "content")
       ELSE Str("https://api.example.com")

\* typeAttributes?.includes(word): undefined without typeAttributes, the
\* membership test of an array, the substring test of a string, and a
\* TypeError for any other value, which has no includes method.
typeAttributesIncludes(variable, word) ==
    LET typeAttributes == OptGet(OptGet(variable, "attributes"), "typeAttributes")
    IN CASE IsNullish(typeAttributes) -> Undefined
         [] typeAttributes.t = "array" ->
                Bool(\E i \in 1..Len(typeAttributes.a) : typeAttributes.a[i] = Str(word))
         [] typeAttributes.t = "string" -> Bool(Includes(typeAttributes.s, word))
         [] OTHER -> Thrown

parseVariable(variable) ==
    LET name == Get(Get(Get(variable, "content"), "key"), "content")
        description == Or(OptGet(OptGet(OptGet(variable, "meta"), "description"),
                                 "content"), Str(""))
        required == Or(typeAttributesIncludes(variable, "required"), Bool(FALSE))
        location ==
            IF Truthy(typeAttributesIncludes(variable, "query")) THEN "query"
            ELSE IF Truthy(typeAttributesIncludes(variable, "header")) THEN "header"
            ELSE "path"
        schema == mapTypeToSchemaType(
                      Get(Get(Get(variable, "content"), "value"), "element").s)
    IN IF typeAttributesIncludes(variable, "required") = Thrown THEN Thrown
       ELSE Obj(<<Entry("name", name), Entry("in", Str(location)),
                  Entry("description", description),
                  Entry("required", required), Entry("schema", schema)>>)

RECURSIVE parseVariables(_)
parseVariables(hrefVariables) ==
    IF hrefVariables = <<>> THEN <<>>
    ELSE (IF Get(Head(hrefVariables), "element") = Str("member")
          THEN <<parseVariable(Head(hrefVariables))>>
          ELSE <<>>) \o parseVariables(Tail(hrefVariables))

\* parseParameters of apib-parser.ts.
apib_parseParameters(request) ==
    IF ~Truthy(OptGet(OptGet(request, "attributes"), "hrefVariables")) THEN Arr(<<>>)
    ELSE LET parameters == parseVariables(
                 Get(Get(Get(request, "attributes"), "hrefVariables"), "content").a)
         IN IF \E i \in 1..Len(parameters) : parameters[i] = Thrown THEN Thrown
            ELSE Arr(parameters)

\* The schema of a message body: inferred from the parsed text, and a bare
\* object for an empty text and when JSON.parse throws.
bodySchema(bodyContent) ==
    IF ~Truthy(bodyContent) THEN BareObject
    ELSE IF JSONparse(bodyContent.s) = Thrown THEN BareObject
    ELSE inferSchemaFromValue(JSONparse(bodyContent.s))

parseRequestBody(request) ==
    IF ~Truthy(OptGet(request, "content")) THEN Undefined
    ELSE LET asset == Find(Get(request, "content").a, "asset")
         IN IF ~Truthy(asset) THEN Undefined
            ELSE Obj(<<Entry("required", Bool(TRUE)),
                       Entry("contentType",
                             Or(OptGet(OptGet(Get(asset, "attributes"), "contentType"),
                                       "content"), Str("application/json"))),
                       Entry("schema", bodySchema(Get(asset, "content")))>>)

statusCodeOf(response) ==
    parseInt(Or(OptGet(OptGet(OptGet(response, "attributes"), "statusCode"), "content"),
                Str("200")).s)

parseResponse(response) ==
    LET asset == IF Truthy(OptGet(response, "content"))
                 THEN Find(Get(response, "content").a, "asset")
                 ELSE Undefined
    IN Obj(<<Entry("statusCode", statusCodeOf(response)),
             Entry("description",
                   Or(OptGet(OptGet(OptGet(response, "meta"), "title"), "content"),
                      Str(""))),
             Entry("contentType",
                   IF Truthy(asset)
                   THEN Or(OptGet(OptGet(Get(asset, "attributes"), "contentType"),
                                  "content"), Str("application/json"))
                   ELSE Str("application/json")),
             Entry("schema",
                   IF Truthy(asset) THEN bodySchema(Get(asset, "content"))
                   ELSE BareObject)>>)

\* The decimal text of a natural number, as a template literal and
\* JSON.stringify write it.
RECURSIVE NumberText(_)
NumberText(n) ==
    IF n < 10 THEN SubSeq(Digits, n + 1, n + 1)
    ELSE NumberText(n \div 10) \o SubSeq(Digits, (n % 10) + 1, (n % 10) + 1)

\* statusCode > 400 in the place of statusCode >= 400.
IsErrorStatus_Above400(statusCode) == "n" \in DOMAIN statusCode /\ statusCode.n > 400

\* statusCode >= 400, false for NaN.
IsErrorStatus(statusCode) == "n" \in DOMAIN statusCode /\ statusCode.n >= 400

parseError(item) ==
    LET statusCode == statusCodeOf(item)
        asset == OptFind(item, "asset")
    IN Obj(<<Entry("statusCode", statusCode),
             Entry("description",
                   Or(OptGet(OptGet(Get(item, "meta"), "title"), "content"),
                      Str("Error " \o NumberText(statusCode.n)))),
             Entry("schema",
                   IF Truthy(OptGet(asset, "content"))
                   THEN bodySchema(Get(asset, "content"))
                   ELSE Undefined)>>)

IsErrorResponse(item) ==
    Get(item, "element") = Str("httpResponse") /\ IsErrorStatus(statusCodeOf(item))

RECURSIVE parseErrorItems(_)
parseErrorItems(items) ==
    IF items = <<>> THEN <<>>
    ELSE (IF IsErrorResponse(Head(items)) THEN <<parseError(Head(items))>> ELSE <<>>)
         \o parseErrorItems(Tail(items))

\* parseErrors that leaves out the first httpResponse of the transaction.
parseErrors_AfterPrimary(transaction) ==
    IF ~Truthy(OptGet(transaction, "content")) THEN Arr(<<>>)
    ELSE LET items == Get(transaction, "content").a
             responses == {i \in 1..Len(items) : Get(items[i], "element") = Str("httpResponse")}
             primary == IF responses = {} THEN 0
                        ELSE CHOOSE i \in responses : \A j \in responses : i <= j
         IN Arr(parseErrorItems(SubSeq(items, 1, primary - 1)
                                \o SubSeq(items, primary + 1, Len(items))))

parseErrors(transaction) ==
    IF ~Truthy(OptGet(transaction, "content")) THEN Arr(<<>>)
    ELSE Arr(parseErrorItems(Get(transaction, "content").a))

\* JSON.stringify: the text of a string escapes its quotes and backslashes,
\* a property whose value is undefined is left out of its object, and an
\* undefined or NaN element of an array is written null.
Quote(s) == "\"" \o ReplaceAll(ReplaceAll(s, "\\", "\\\\"), "\"", "\\\"") \o "\""

RECURSIVE Stringify(_)
RECURSIVE StringifyEntries(_)
RECURSIVE StringifyItems(_)
StringifyEntries(entries) ==
    IF entries = <<>> THEN ""
    ELSE Quote(Head(entries).k) \o ":" \o Stringify(Head(entries).v)
         \o (IF Len(entries) > 1 THEN "," ELSE "") \o StringifyEntries(Tail(entries))

StringifyItems(items) ==
    IF items = <<>> THEN ""
    ELSE (IF Head(items) = Undefined THEN "null" ELSE Stringify(Head(items)))
         \o (IF Len(items) > 1 THEN "," ELSE "") \o StringifyItems(Tail(items))

Stringify(v) ==
    CASE v.t = "null" -> "null"
      [] v.t = "boolean" -> IF v.b THEN "true" ELSE "false"
      [] v.t = "number" -> IF "n" \in DOMAIN v THEN NumberText(v.n) ELSE "null"
      [] v.t = "string" -> Quote(v.s)
      [] v.t = "array" -> "[" \o StringifyItems(v.a) \o "]"
      [] v.t = "object" ->
             "{" \o StringifyEntries(SelectSeq(v.o, LAMBDA e : e.v # Undefined)) \o "}"

\* detectAuth of apib-parser.ts letting Basic win over the bearer markers.
apib_detectAuth_BasicFirst(ast) ==
    LET astString == Stringify(ast)
    IN IF /\ Includes(astString, "Authorization") \/ Includes(astString, "bearer")
          /\ ~Includes(astString, "Basic")
       THEN Obj(<<Entry("type", Str("bearer")), Entry("location", Str("header")),
                  Entry("name", Str("Authorization")),
                  Entry("description", Str("Bearer token authentication"))>>)
       ELSE IF \/ Includes(astString, "api-key")
               \/ Includes(astString, "apiKey")
               \/ Includes(astString, "X-API-Key")
       THEN Obj(<<Entry("type", Str("api-key")), Entry("location", Str("header")),
                  Entry("name", Str("X-API-Key")),
                  Entry("description", Str("API key authentication"))>>)
       ELSE IF Includes(astString, "oauth") \/ Includes(astString, "OAuth")
       THEN Obj(<<Entry("type", Str("oauth")),
                  Entry("description", Str("OAuth 2.0 authentication"))>>)
       ELSE IF Includes(astString, "Basic")
       THEN Obj(<<Entry("type", Str("basic")),
                  Entry("description", Str("Basic authentication"))>>)
       ELSE Obj(<<Entry("type", Str("none"))>>)

\* detectAuth of apib-parser.ts.
apib_detectAuth(ast) ==
    LET astString == Stringify(ast)
    IN IF Includes(astString, "Authorization") \/ Includes(astString, "bearer")
       THEN Obj(<<Entry("type", Str("bearer")), Entry("location", Str("header")),
                  Entry("name", Str("Authorization")),
                  Entry("description", Str("Bearer token authentication"))>>)
       ELSE IF \/ Includes(astString, "api-key")
               \/ Includes(astString, "apiKey")
               \/ Includes(astString, "X-API-Key")
       THEN Obj(<<Entry("type", Str("api-key")), Entry("location", Str("header")),
                  Entry("name", Str("X-API-Key")),
                  Entry("description", Str("API key authentication"))>>)
       ELSE IF Includes(astString, "oauth") \/ Includes(astString, "OAuth")
       THEN Obj(<<Entry("type", Str("oauth")),
                  Entry("description", Str("OAuth 2.0 authentication"))>>)
       ELSE IF Includes(astString, "Basic")
       THEN Obj(<<Entry("type", Str("basic")),
                  Entry("description", Str("Basic authentication"))>>)
       ELSE Obj(<<Entry("type", Str("none"))>>)

TitleOf(element) == OptGet(OptGet(OptGet(element, "meta"), "title"), "content")

\* parseAction preferring the title of the transition to its copy element.
parseAction_TitleFirst(transaction, resourcePath, transition) ==
    LET request == OptFind(transaction, "httpRequest")
        response == OptFind(transaction, "httpResponse")
        method == ToUpperCase(
            Or(OptGet(OptGet(OptGet(request, "attributes"), "method"), "content"),
               Str("GET")).s)
        path == Or(OptGet(OptGet(OptGet(request, "attributes"), "href"), "content"),
                   resourcePath)
        copyElement == OptFind(transition, "copy")
        description ==
            IF Truthy(TitleOf(transition)) THEN TitleOf(transition)
            ELSE IF Truthy(OptGet(copyElement, "content")) THEN Get(copyElement, "content")
            ELSE IF Truthy(TitleOf(transaction)) THEN TitleOf(transaction)
            ELSE IF Truthy(TitleOf(request)) THEN TitleOf(request)
            ELSE Str("")
        id == ToLowerCase(method) \o "-"
              \o ReplaceAll(ReplaceAll(ReplaceAll(path.s, "/", "-"), "{", ""), "}", "")
    IN IF Get(transaction, "content").t # "array" THEN Thrown
       ELSE IF Get(transition, "content").t # "array" THEN Thrown
       ELSE IF apib_parseParameters(request) = Thrown THEN Thrown
       ELSE Obj(<<Entry("id", Str(id)), Entry("method", Str(method)),
                  Entry("path", path), Entry("description", description),
                  Entry("parameters", apib_parseParameters(request)),
                  Entry("requestBody", parseRequestBody(request)),
                  Entry("response", parseResponse(response)),
                  Entry("errors", parseErrors(transaction))>>)

\* parseAction that keeps the method as the request spells it.
parseAction_MethodAsDeclared(transaction, resourcePath, transition) ==
    LET request == OptFind(transaction, "httpRequest")
        response == OptFind(transaction, "httpResponse")
        method ==
            Or(OptGet(OptGet(OptGet(request, "attributes"), "method"), "content"),
               Str("GET")).s
        path == Or(OptGet(OptGet(OptGet(request, "attributes"), "href"), "content"),
                   resourcePath)
        copyElement == OptFind(transition, "copy")
        description ==
            IF Truthy(OptGet(copyElement, "content")) THEN Get(copyElement, "content")
            ELSE IF Truthy(TitleOf(transition)) THEN TitleOf(transition)
            ELSE IF Truthy(TitleOf(transaction)) THEN TitleOf(transaction)
            ELSE IF Truthy(TitleOf(request)) THEN TitleOf(request)
            ELSE Str("")
        id == ToLowerCase(method) \o "-"
              \o ReplaceAll(ReplaceAll(ReplaceAll(path.s, "/", "-"), "{", ""), "}", "")
    IN IF Get(transaction, "content").t # "array" THEN Thrown
       ELSE IF Get(transition, "content").t # "array" THEN Thrown
       ELSE IF apib_parseParameters(request) = Thrown THEN Thrown
       ELSE Obj(<<Entry("id", Str(id)), Entry("method", Str(method)),
                  Entry("path", path), Entry("description", description),
                  Entry("parameters", apib_parseParameters(request)),
                  Entry("requestBody", parseRequestBody(request)),
                  Entry("response", parseResponse(response)),
                  Entry("errors", parseErrors(transaction))>>)

\* parseAction: Thrown when transaction.content or transition.content is not
\* an array (find is read from undefined) and when parseParameters throws.
parseAction(transaction, resourcePath, transition) ==
    LET request == OptFind(transaction, "httpRequest")
        response == OptFind(transaction, "httpResponse")
        method == ToUpperCase(
            Or(OptGet(OptGet(OptGet(request, "attributes"), "method"), "content"),
               Str("GET")).s)
        path == Or(OptGet(OptGet(OptGet(request, "attributes"), "href"), "content"),
                   resourcePath)
        copyElement == OptFind(transition, "copy")
        description ==
            IF Truthy(OptGet(copyElement, "content")) THEN Get(copyElement, "content")
            ELSE IF Truthy(TitleOf(transition)) THEN TitleOf(transition)
            ELSE IF Truthy(TitleOf(transaction)) THEN TitleOf(transaction)
            ELSE IF Truthy(TitleOf(request)) THEN TitleOf(request)
            ELSE Str("")
        id == ToLowerCase(method) \o "-"
              \o ReplaceAll(ReplaceAll(ReplaceAll(path.s, "/", "-"), "{", ""), "}", "")
    IN IF Get(transaction, "content").t # "array" THEN Thrown
       ELSE IF Get(transition, "content").t # "array" THEN Thrown
       ELSE IF apib_parseParameters(request) = Thrown THEN Thrown
       ELSE Obj(<<Entry("id", Str(id)), Entry("method", Str(method)),
                  Entry("path", path), Entry("description", description),
                  Entry("parameters", apib_parseParameters(request)),
                  Entry("requestBody", parseRequestBody(request)),
                  Entry("response", parseResponse(response)),
                  Entry("errors", parseErrors(transaction))>>)

\* The endpoints of the transitions of one resource.
RECURSIVE transitionEndpoints(_, _)
transitionEndpoints(transitions, resourcePath) ==
    IF transitions = <<>> THEN <<>>
    ELSE LET transition == Head(transitions)
             transaction == OptFind(transition, "httpTransaction")
         IN (IF Get(transition, "element") = Str("transition") /\ Truthy(transaction)
             THEN <<parseAction(transaction, resourcePath, transition)>>
             ELSE <<>>) \o transitionEndpoints(Tail(transitions), resourcePath)

\* extractEndpoints that descends into no category.
RECURSIVE extractEndpoints_TopLevelOnly(_)
extractEndpoints_TopLevelOnly(items) ==
    IF items = <<>> THEN <<>>
    ELSE LET item == Head(items)
         IN (IF Get(item, "element") = Str("resource")
             THEN transitionEndpoints(
                      Or(Get(item, "content"), Arr(<<>>)).a,
                      Or(OptGet(OptGet(Get(item, "attributes"), "href"), "content"),
                         Str("")))
             ELSE <<>>) \o extractEndpoints_TopLevelOnly(Tail(items))

\* extractEndpoints: what it pushes onto endpoints, in the order pushed.
RECURSIVE extractEndpoints(_)
extractEndpoints(items) ==
    IF items = <<>> THEN <<>>
    ELSE LET item == Head(items)
         IN (IF Get(item, "element") = Str("resource")
             THEN transitionEndpoints(
                      Or(Get(item, "content"), Arr(<<>>)).a,
                      Or(OptGet(OptGet(Get(item, "attributes"), "href"), "content"),
                         Str("")))
             ELSE IF Get(item, "element") = Str("category") /\ Truthy(Get(item, "content"))
             THEN extractEndpoints(Get(item, "content").a)
             ELSE <<>>) \o extractEndpoints(Tail(items))

\* parseAPIBlueprint: every exception of the try block, the ParseError for
\* result.error included, leaves as a ParseError.
parseAPIBlueprint(result) ==
    IF result = Thrown THEN Threw("ParseError")
    ELSE IF IsNullish(result) THEN Threw("ParseError")
    ELSE IF Truthy(Get(result, "error")) THEN Threw("ParseError")
    ELSE IF Get(result, "content").t # "array" THEN Threw("ParseError")
    ELSE IF Get(result, "content").a = <<>> THEN Threw("ParseError")
    ELSE LET ast == result
             apiMetadata == Get(ast, "content").a[1]
             endpoints == extractEndpoints(Get(ast, "content").a)
         IN IF \E i \in 1..Len(endpoints) : endpoints[i] = Thrown
            THEN Threw("ParseError")
            ELSE [status |-> "returned",
                  schema |-> Obj(<<Entry("name", Or(TitleOf(apiMetadata),
                                                    Str("Untitled API"))),
                                   Entry("baseUrl", extractBaseUrl(ast)),
                                   Entry("auth", apib_detectAuth(ast)),
                                   Entry("endpoints", Arr(endpoints))>>)]

\* The element trees parseAPIBlueprint is applied to. Groups(d) nests
\* resource groups d deep: each level holds the level below, after an
\* optional resource of its own and before an optional other one.
StringElement(s) == Obj(<<Entry("element", Str("string")), Entry("content", Str(s))>>)

Titled(title) == <<Entry("meta", Obj(<<Entry("title", StringElement(title))>>))>>

Copy(text) == Obj(<<Entry("element", Str("copy")), Entry("content", Str(text))>>)

HttpRequest(method) ==
    Obj(<<Entry("element", Str("httpRequest")),
          Entry("attributes", Obj(<<Entry("method", StringElement(method))>>)),
          Entry("content", Arr(<<>>))>>)

HttpResponse(statusCode) ==
    Obj(<<Entry("element", Str("httpResponse")),
          Entry("attributes", Obj(<<Entry("statusCode", StringElement(statusCode))>>)),
          Entry("content", Arr(<<>>))>>)

HttpTransaction(method, statusCode) ==
    Obj(<<Entry("element", Str("httpTransaction")),
          Entry("content", Arr(<<HttpRequest(method), HttpResponse(statusCode)>>))>>)

Transition(title, items) ==
    Obj(<<Entry("element", Str("transition"))>> \o Titled(title)
        \o <<Entry("content", Arr(items))>>)

Resource(href, items) ==
    Obj(<<Entry("element", Str("resource")),
          Entry("attributes", Obj(<<Entry("href", StringElement(href))>>)),
          Entry("content", Arr(items))>>)

Category(class, items) ==
    Obj(<<Entry("element", Str("category")),
          Entry("meta", Obj(<<Entry("classes",
              Obj(<<Entry("element", Str("array")),
                    Entry("content", Arr(<<StringElement(class)>>))>>))>>)),
          Entry("content", Arr(items))>>)

\* A transition of one transaction, one of none, one without content, and
\* one of two transactions after its description.
List == Transition("List", <<HttpTransaction("GET", "200")>>)

Undocumented == Transition("Undocumented", <<Copy("No example yet.")>>)

Hollow == Obj(<<Entry("element", Str("transition"))>> \o Titled("Hollow"))

Replace ==
    Transition("Replace", <<Copy("Replaces it."), HttpTransaction("put", "204"),
                            HttpTransaction("POST", "201")>>)

Level(d) == SubSeq(Digits, d + 1, d + 1)

Before(d) == {<<>>, <<Resource("/before/" \o Level(d), <<Undocumented, List>>)>>}

After(d) == {<<>>, <<Resource("/after/" \o Level(d), <<Replace, Hollow>>)>>}

Innermost == {
    Obj(<<Entry("element", Str("category"))>>),
    Category("resourceGroup", <<>>),
    Category("resourceGroup", <<Resource("/pets/{id}", <<List, Replace>>)>>),
    Category("resourceGroup",
             <<Copy("Pets."), Resource("/pets", <<Resource("/inner", <<List>>), List>>)>>),
    Obj(<<Entry("element", Str("dataStructures")),
          Entry("content", Arr(<<Resource("/hidden", <<List>>)>>))>>),
    Obj(<<Entry("element", Str("annotation")),
          Entry("content", Arr(<<Category("resourceGroup",
                                          <<Resource("/veiled", <<List>>)>>)>>))>>)
}

MaxNesting == 2

RECURSIVE Groups(_)
Groups(d) ==
    IF d = 0 THEN Innermost
    ELSE {Category("resourceGroup", before \o <<group>> \o after) :
              before \in Before(d), group \in Groups(d - 1), after \in After(d)}

Member(key, val) ==
    Obj(<<Entry("element", Str("member")),
          Entry("content", Obj(<<Entry("key", StringElement(key)),
                                 Entry("value", StringElement(val))>>))>>)

\* The api category, with a title and a HOST or with neither.
ApiCategories(items) == {
    Obj(<<Entry("element", Str("category")),
          Entry("meta", Obj(<<Entry("classes",
              Obj(<<Entry("element", Str("array")),
                    Entry("content", Arr(<<StringElement("api")>>))>>)),
              Entry("title", StringElement("Pet Store"))>>)),
          Entry("attributes", Obj(<<Entry("metadata",
              Obj(<<Entry("element", Str("array")),
                    Entry("content", Arr(<<Member("FORMAT", "1A"),
                                           Member("HOST", "https://pets.test")>>))>>))>>)),
          Entry("content", Arr(items))>>),
    Category("api", items)
}

ParseResult(items) ==
    Obj(<<Entry("element", Str("parseResult")), Entry("content", Arr(items))>>)

NestedResults ==
    {ParseResult(<<api>>) :
        api \in UNION {ApiCategories(<<group>>) :
                          group \in UNION {Groups(d) : d \in 0..MaxNesting}}}

\* The results that are no tree of resource groups: parseSync throws or
\* reports an error, the parse result is empty, a resource stands outside
\* every category, and a transaction is without content.
OtherResults == {
    Thrown,
    Obj(<<Entry("error", Obj(<<Entry("message", Str("bad blueprint"))>>))>>),
    ParseResult(<<>>),
    Obj(<<Entry("element", Str("parseResult"))>>),
    ParseResult(<<Resource("/top", <<List>>), Category("api", <<>>)>>),
    ParseResult(<<Category("api", <<Resource("/pets", <<Transition("Broken",
        <<Obj(<<Entry("element", Str("httpTransaction"))>>)>>)>>)>>)>>)
}

\* The results that vary where a description can come from: the copy
\* elements of the transition, its title, the title of its transaction and
\* the title of the request, each absent, empty or with a text. A copy
\* element of the resource and one of the transaction are always there.
Titles(text) == {<<>>, Titled(""), Titled(text)}

Requests ==
    {<<>>}
    \cup {<<Obj(<<Entry("element", Str("httpRequest"))>> \o title
               \o <<Entry("attributes", Obj(<<Entry("method", StringElement("GET"))>>)),
                    Entry("content", Arr(<<>>))>>)>> : title \in Titles("Request title")}

DescribedTransitions ==
    {Obj(<<Entry("element", Str("transition"))>> \o transitionTitle
         \o <<Entry("content", Arr(copies \o
                <<Obj(<<Entry("element", Str("httpTransaction"))>> \o transactionTitle
                      \o <<Entry("content", Arr(<<Copy("Inside the transaction.")>>
                                                \o request \o <<HttpResponse("200")>>))>>)>>))>>) :
        transitionTitle \in Titles("Transition title"),
        transactionTitle \in Titles("Transaction title"),
        request \in Requests,
        copies \in {<<>>, <<Copy("")>>, <<Copy("Copy text.")>>,
                    <<Copy("Copy text."), Copy("More text.")>>}}

DescribedResults ==
    {ParseResult(<<Category("api",
         <<Resource("/pets", <<Copy("About pets."), transition>>)>>)>>) :
        transition \in DescribedTransitions}

\* The results that vary the words an auth marker can be found in: one in
\* the name of a request header, one in the text of a copy element and in a
\* message body. Some words are markers, some differ from a marker by case.
Words == {"", "Authorization", "bearer", "api-key", "apiKey", "X-API-Key", "oauth", "OAuth",
          "Basic", "authorization", "Bearer", "API-Key", "x-api-key", "Oauth", "basic"}

HeaderedRequest(name) ==
    Obj(<<Entry("element", Str("httpRequest")),
          Entry("attributes", Obj(<<
              Entry("method", StringElement("GET")),
              Entry("headers", Obj(<<
                  Entry("element", Str("httpHeaders")),
                  Entry("content", Arr(<<Member("Accept", "application/json"),
                                         Member(name, "secret")>>))>>))>>)),
          Entry("content", Arr(<<>>))>>)

MarkedResults ==
    {ParseResult(<<Category("api", <<
         Copy("Send " \o inCopy \o " along."),
         Resource("/pets", <<Transition("List", <<
             Obj(<<Entry("element", Str("httpTransaction")),
                   Entry("content", Arr(<<HeaderedRequest(inHeader),
                                          HttpResponse("200")>>))>>)>>)>>)>>)>>) :
        inCopy \in Words, inHeader \in Words}

\* The results that vary the message bodies of one transaction: the assets
\* of its request and of its responses, and the status codes of the
\* responses.
Asset(text) ==
    Obj(<<Entry("element", Str("asset")),
          Entry("meta", Obj(<<Entry("classes",
              Obj(<<Entry("element", Str("array")),
                    Entry("content", Arr(<<StringElement("messageBody")>>))>>))>>)),
          Entry("attributes", Obj(<<Entry("contentType", StringElement("application/json"))>>)),
          Entry("content", Str(text))>>)

Assets ==
    {<<>>, <<Asset("")>>, <<Obj(<<Entry("element", Str("asset"))>>)>>,
     <<Asset("<pet/>"), Asset("[{\"id\":1}]")>>,
     <<Copy("A pet."), Asset("{\"name\":\"Rex\",\"tags\":[]}")>>}
    \cup {<<Asset(body.text)>> : body \in Bodies}

BodyRequests ==
    {Obj(<<Entry("element", Str("httpRequest")),
           Entry("attributes", Obj(<<Entry("method", StringElement("POST"))>>)),
           Entry("content", Arr(assets))>>) : assets \in Assets}

StatusCodes ==
    {<<>>} \cup {<<Entry("attributes", Obj(<<Entry("statusCode", StringElement(code))>>))>> :
                    code \in {"", "100", "200", "302", "400", "404", "500"}}

BodyResponses ==
    {Obj(<<Entry("element", Str("httpResponse"))>> \o statusCode
         \o <<Entry("content", Arr(assets))>>) : statusCode \in StatusCodes, assets \in Assets}

BodyTransactions ==
    {<<request, response>> : request \in BodyRequests, response \in BodyResponses}
    \cup {<<HttpRequest("GET"), first, second>> :
             first \in {r \in BodyResponses :
                           Get(r, "content") \in {Arr(<<>>), Arr(<<Asset("42")>>)}},
             second \in {r \in BodyResponses :
                            Get(r, "content") \in {Arr(<<>>), Arr(<<Asset("<pet/>")>>),
                                                   Arr(<<Asset("[{\"id\":1}]")>>)}}}
    \cup {<<request>> : request \in BodyRequests}
    \cup {<<response>> : response \in BodyResponses}

BodyResults ==
    {ParseResult(<<Category("api", <<Resource("/pets", <<Transition("Create",
         <<Obj(<<Entry("element", Str("httpTransaction")),
                 Entry("content", Arr(items))>>)>>)>>)>>)>>) : items \in BodyTransactions}

\* The results that vary what the method and the path of an endpoint come
\* from: the request absent, its method absent or spelled in some case, its
\* href absent, empty or a template of its own, and the href of the
\* resource absent (with and without attributes), empty or a template.
Hrefs(href) ==
    {<<>>, <<Entry("href", StringElement(""))>>, <<Entry("href", StringElement(href))>>}

RoutedRequests ==
    {<<>>}
    \cup {<<Obj(<<Entry("element", Str("httpRequest")),
                 Entry("attributes", Obj(method \o href)),
                 Entry("content", Arr(<<>>))>>)>> :
             method \in {<<>>, <<Entry("method", StringElement("get"))>>,
                         <<Entry("method", StringElement("Post"))>>,
                         <<Entry("method", StringElement("DELETE"))>>},
             href \in Hrefs("/pets/{id}")}
    \cup {<<Obj(<<Entry("element", Str("httpRequest")), Entry("content", Arr(<<>>))>>)>>}

RoutedResources ==
    {Obj(<<Entry("element", Str("resource"))>> \o attributes
         \o <<Entry("content", Arr(<<Transition("Act",
                <<Obj(<<Entry("element", Str("httpTransaction")),
                        Entry("content", Arr(request \o <<HttpResponse("200")>>))>>)>>)>>))>>) :
        attributes \in {<<>>} \cup {<<Entry("attributes", Obj(href))>> : href \in Hrefs("/pets")},
        request \in RoutedRequests}

RoutedResults ==
    {ParseResult(<<Category("api", <<resource>>)>>) : resource \in RoutedResources}

DrafterResults ==
    NestedResults \cup OtherResults \cup DescribedResults \cup MarkedResults
    \cup BodyResults \cup RoutedResults

BlueprintIdle ==
    /\ drafted = Undefined
    /\ blueprint = Pending

BlueprintInit ==
    /\ drafted \in DrafterResults
    /\ blueprint = Pending

CallParseAPIBlueprint ==
    /\ blueprint = Pending
    /\ blueprint' = parseAPIBlueprint(drafted)
    /\ UNCHANGED drafted
    /\ UNCHANGED notBlueprint

----------------------------------------------------------------------------
(* The registry of generated servers (registry manager): ensureRegistry,    *)
(* loadRegistry, saveRegistry, addServer, getServer and listServers. Each   *)
(* caller runs one call at a time; a call gives way to the other callers at *)
(* each file operation it awaits. registry.json holds what JSON.stringify   *)
(* wrote, and JSON.parse gives back the same value for it: its entries hold *)
(* strings only.                                                            *)

Callers == {"first", "second"}

MaxCalls == 3

Names == {"pets", "store"}

ServerPaths == {"/srv/out", "out-mcp"}

\* path.resolve of a path without . and .. segments, in the directory /work.
pathResolve(serverPath) ==
    IF StartsWith(serverPath, "/") THEN serverPath ELSE "/work/" \o serverPath

\* new Date(t).toISOString(), t counted in milliseconds below ten.
toISOString(t) == "2026-02-02T00:00:00.00" \o NumberText(t) \o "Z"

RegistryEntry(name, serverPath, t) ==
    Obj(<<Entry("name", Str(name)), Entry("path", Str(pathResolve(serverPath))),
          Entry("createdAt", Str(toISOString(t)))>>)

EmptyRegistry == Obj(<<Entry("servers", Arr(<<>>))>>)

RegistryCalls ==
    {[op |-> "addServer", name |-> n, serverPath |-> q] : n \in Names, q \in ServerPaths}
    \cup {[op |-> "getServer", name |-> n, serverPath |-> ""] : n \in Names}
    \cup {[op |-> "listServers", name |-> "", serverPath |-> ""]}

NoRequest == [op |-> "", name |-> "", serverPath |-> ""]

\* A filter that removes nothing.
filterServers_KeepAll(servers, name) == servers

\* registry.servers.filter(s => s.name !== name)
RECURSIVE filterServers(_, _)
filterServers(servers, name) ==
    IF servers = <<>> THEN <<>>
    ELSE (IF Get(Head(servers), "name") # Str(name) THEN <<Head(servers)>> ELSE <<>>)
         \o filterServers(Tail(servers), name)

\* registry.servers.find(s => s.name === name)
RECURSIVE findServer(_, _)
findServer(servers, name) ==
    IF servers = <<>> THEN Undefined
    ELSE IF Get(Head(servers), "name") = Str(name) THEN Head(servers)
    ELSE findServer(Tail(servers), name)

RegistryIdle ==
    /\ registryFile = Undefined
    /\ at = [c \in Callers |-> "idle"]
    /\ calling = [c \in Callers |-> NoRequest]
    /\ registry = [c \in Callers |-> Undefined]
    /\ reply = [c \in Callers |-> Undefined]
    /\ budget = [c \in Callers |-> 0]
    /\ now = 0
    /\ log = <<>>

\* One caller, making its calls one after the other.
RegistryInit ==
    /\ registryFile = Undefined
    /\ at = [c \in Callers |-> "idle"]
    /\ calling = [c \in Callers |-> NoRequest]
    /\ registry = [c \in Callers |-> Undefined]
    /\ reply = [c \in Callers |-> Undefined]
    /\ budget = [c \in Callers |-> IF c = "first" THEN MaxCalls ELSE 0]
    /\ now = 0
    /\ log = <<>>

\* Two callers, making one call each.
ConcurrentInit ==
    /\ registryFile = Undefined
    /\ at = [c \in Callers |-> "idle"]
    /\ calling = [c \in Callers |-> NoRequest]
    /\ registry = [c \in Callers |-> Undefined]
    /\ reply = [c \in Callers |-> Undefined]
    /\ budget = [c \in Callers |-> 1]
    /\ now = 0
    /\ log = <<>>

\* A caller calls addServer, getServer or listServers; each begins with
\* loadRegistry, which begins with ensureRegistry.
CallRegistry(c) ==
    /\ at[c] = "idle"
    /\ budget[c] > 0
    /\ \E r \in RegistryCalls : calling' = [calling EXCEPT ![c] = r]
    /\ budget' = [budget EXCEPT ![c] = @ - 1]
    /\ at' = [at EXCEPT ![c] = "access"]
    /\ registry' = [registry EXCEPT ![c] = Undefined]
    /\ reply' = [reply EXCEPT ![c] = Undefined]
    /\ UNCHANGED <<registryFile, now, log>>
    /\ UNCHANGED notRegistry

\* ensureRegistry, fs.access: of loadRegistry (at access) and of
\* saveRegistry (at saveAccess).
ensureRegistry(c) ==
    /\ at[c] \in {"access", "saveAccess"}
    /\ at' = [at EXCEPT ![c] =
                 IF registryFile = Undefined
                 THEN (IF at[c] = "access" THEN "create" ELSE "saveCreate")
                 ELSE (IF at[c] = "access" THEN "read" ELSE "write")]
    /\ UNCHANGED <<registryFile, calling, registry, reply, budget, now, log>>
    /\ UNCHANGED notRegistry

\* ensureRegistry, the catch block: fs.mkdir, which changes nothing here,
\* and fs.writeFile of the empty registry, whatever the file holds by now.
createRegistry(c) ==
    /\ at[c] \in {"create", "saveCreate"}
    /\ registryFile' = EmptyRegistry
    /\ at' = [at EXCEPT ![c] = IF at[c] = "create" THEN "read" ELSE "write"]
    /\ UNCHANGED <<calling, registry, reply, budget, now, log>>
    /\ UNCHANGED notRegistry

\* loadRegistry, fs.readFile and JSON.parse, and what the caller does with
\* the registry before it awaits again: addServer filters, pushes and calls
\* saveRegistry; getServer and listServers return.
loadRegistry(c) ==
    /\ at[c] = "read"
    /\ LET servers == Get(registryFile, "servers").a
       IN CASE calling[c].op = "addServer" ->
                   /\ \E t \in {now, now + 1} :
                          /\ now' = t
                          /\ registry' = [registry EXCEPT ![c] =
                                 Obj(<<Entry("servers",
                                     Arr(Append(filterServers(servers, calling[c].name),
                                                RegistryEntry(calling[c].name,
                                                              calling[c].serverPath, t))))>>)]
                   /\ at' = [at EXCEPT ![c] = "saveAccess"]
                   /\ UNCHANGED <<reply, log>>
            [] calling[c].op = "getServer" ->
                   /\ registry' = [registry EXCEPT ![c] = registryFile]
                   /\ reply' = [reply EXCEPT ![c] = findServer(servers, calling[c].name)]
                   /\ log' = Append(log, [caller |-> c, calling |-> calling[c],
                                          reply |-> findServer(servers, calling[c].name)])
                   /\ at' = [at EXCEPT ![c] = "idle"]
                   /\ UNCHANGED now
            [] calling[c].op = "listServers" ->
                   /\ registry' = [registry EXCEPT ![c] = registryFile]
                   /\ reply' = [reply EXCEPT ![c] = Arr(servers)]
                   /\ log' = Append(log, [caller |-> c, calling |-> calling[c],
                                          reply |-> Arr(servers)])
                   /\ at' = [at EXCEPT ![c] = "idle"]
                   /\ UNCHANGED now
    /\ UNCHANGED <<registryFile, calling, budget>>
    /\ UNCHANGED notRegistry

\* saveRegistry, fs.writeFile of the caller's registry; addServer returns.
saveRegistry(c) ==
    /\ at[c] = "write"
    /\ registryFile' = registry[c]
    /\ log' = Append(log, [caller |-> c, calling |-> calling[c],
                           reply |-> Get(registry[c], "servers").a[
                                         Len(Get(registry[c], "servers").a)]])
    /\ at' = [at EXCEPT ![c] = "idle"]
    /\ UNCHANGED <<calling, registry, reply, budget, now>>
    /\ UNCHANGED notRegistry

RegistryNext ==
    \E c \in Callers :
        \/ CallRegistry(c)
        \/ ensureRegistry(c)
        \/ createRegistry(c)
        \/ loadRegistry(c)
        \/ saveRegistry(c)

----------------------------------------------------------------------------
(* The commands of the CLI: createCommand (commands/create.ts) with         *)
(* parsePostman, parseWithAI, analyzePatterns, generateServer and           *)
(* generateFile, and validateCommand (commands/validate.js). A command      *)
(* awaits detectFormat first, which runs as the detector above; addServer   *)
(* runs as the first caller of the registry above. A command gives way at   *)
(* each call it awaits; every exception it catches is an Error, which ends  *)
(* the process with exit code 1.                                            *)

parsePostman(collection) == Threw("ParseError")

\* parseWithAI: one ParseError without ANTHROPIC_API_KEY, another with it.
parseWithAI(text, apiKey) ==
    IF ~Truthy(apiKey) THEN Threw("ParseError") ELSE Threw("ParseError")

detectErrorFormat(schema) ==
    LET endpoints == Get(schema, "endpoints").a
        hasCustomErrors ==
            \E i \in 1..Len(endpoints) :
                LET errors == Get(endpoints[i], "errors").a
                IN /\ Len(errors) > 0
                   /\ \E j \in 1..Len(errors) : Truthy(Get(errors[j], "schema"))
    IN IF hasCustomErrors THEN Str("custom") ELSE Str("standard")

analyzePatterns(schema) ==
    Obj(<<Entry("authPattern", Get(Get(schema, "auth"), "type")),
          Entry("paginationStyle", OptGet(Get(schema, "pagination"), "style")),
          Entry("rateLimitStrategy",
                Or(OptGet(Get(schema, "rateLimit"), "strategy"), Str("none"))),
          Entry("errorFormat", detectErrorFormat(schema)),
          Entry("hasWebhooks", Bool(FALSE))>>)

\* The output files of generateServer, in the order it generates them.
OutputFiles ==
    <<"package.json", "tsconfig.json", "README.md", "src/index.ts", "src/client.ts",
      "src/tools.ts", "src/types.ts", "src/validation.ts", "test.ts">>

\* What drafter.parseSync can give for the text of a file: it throws,
\* reports an error, or gives a parse result, with or without a title.
DraftedTexts == {
    Thrown,
    Obj(<<Entry("error", Obj(<<Entry("message", Str("bad blueprint"))>>))>>),
    ParseResult(<<Category("api", <<Resource("/pets", <<List>>)>>)>>),
    ParseResult(<<Obj(<<Entry("element", Str("category")),
                        Entry("meta", Obj(<<Entry("title", StringElement("Pet Store"))>>)),
                        Entry("content", Arr(<<Resource("/pets", <<Replace>>)>>))>>)>>)
}

Options ==
    {[aiParse |-> a, output |-> o] :
        a \in {Undefined, Bool(TRUE)}, o \in {Undefined, Str("out")}}

\* The registries a command can find: none, and one that holds a server
\* generated before.
FoundRegistries == {
    Undefined,
    Obj(<<Entry("servers", Arr(<<
        Obj(<<Entry("name", Str("Pets")), Entry("path", Str("/old/Pets-mcp")),
              Entry("createdAt", Str("2026-01-01T00:00:00.000Z"))>>)>>))>>)
}

CommandIdle ==
    /\ command = ""
    /\ options = [aiParse |-> Undefined, output |-> Undefined]
    /\ stage = "idle"
    /\ calls = <<>>
    /\ normalized = Pending
    /\ patterns = Undefined
    /\ outputDir = Undefined
    /\ written = <<>>
    /\ exitCode = Undefined

\* A command has been invoked on a file and has called detectFormat.
CommandInit ==
    /\ DetectInit
    /\ command \in {"create", "validate"}
    /\ options \in Options
    /\ command = "validate" => options = [aiParse |-> Undefined, output |-> Undefined]
    /\ stage = "detect"
    /\ calls = <<"detectFormat">>
    /\ normalized = Pending
    /\ patterns = Undefined
    /\ outputDir = Undefined
    /\ written = <<>>
    /\ exitCode = Undefined
    /\ registryFile \in FoundRegistries
    /\ at = [c \in Callers |-> "idle"]
    /\ calling = [c \in Callers |-> NoRequest]
    /\ registry = [c \in Callers |-> Undefined]
    /\ reply = [c \in Callers |-> Undefined]
    /\ budget = [c \in Callers |-> 0]
    /\ now = 0
    /\ log = <<>>

\* The catch block of either command when detectFormat threw.
DetectionFailed ==
    /\ stage = "detect"
    /\ detection.status = "thrown"
    /\ stage' = "exited"
    /\ exitCode' = Num(1)
    /\ UNCHANGED <<command, options, calls, normalized, patterns, outputDir, written>>
    /\ UNCHANGED <<detectorVars, registryVars, notCommand>>

\* Dispatch that hands a Postman collection to parseOpenAPI.
Dispatch_PostmanAsOpenAPI ==
    /\ command = "create"
    /\ stage = "detect"
    /\ detection.status = "returned"
    /\ \E result \in DraftedTexts, apiKey \in {Undefined, Str("sk-key")} :
           LET parser ==
                   CASE detection.format \in {"openapi", "swagger"} -> <<"parseOpenAPI">>
                     [] detection.format = "postman" -> <<"parseOpenAPI">>
                     [] detection.format = "apib" -> <<"parseAPIBlueprint">>
                     [] OTHER -> IF Truthy(options.aiParse)
                                 THEN <<"parseWithAI">> ELSE <<>>
               outcome ==
                   CASE detection.format \in {"openapi", "swagger"} ->
                            parseOpenAPI(detection.content)
                     [] detection.format = "postman" -> parseOpenAPI(detection.content)
                     [] detection.format = "apib" -> parseAPIBlueprint(result)
                     [] OTHER -> IF Truthy(options.aiParse)
                                 THEN parseWithAI(Stringify(detection.content), apiKey)
                                 ELSE Threw("ParseError")
           IN /\ calls' = calls \o parser
              /\ normalized' = outcome
              /\ IF outcome.status = "returned"
                 THEN stage' = "analyze" /\ UNCHANGED exitCode
                 ELSE stage' = "exited" /\ exitCode' = Num(1)
    /\ UNCHANGED <<command, options, patterns, outputDir, written>>
    /\ UNCHANGED <<detectorVars, registryVars, notCommand>>

\* createCommand, lines 24-37: the parser of the detected format, and the
\* catch block when it throws.
Dispatch ==
    /\ command = "create"
    /\ stage = "detect"
    /\ detection.status = "returned"
    /\ \E result \in DraftedTexts, apiKey \in {Undefined, Str("sk-key")} :
           LET parser ==
                   CASE detection.format \in {"openapi", "swagger"} -> <<"parseOpenAPI">>
                     [] detection.format = "postman" -> <<"parsePostman">>
                     [] detection.format = "apib" -> <<"parseAPIBlueprint">>
                     [] OTHER -> IF Truthy(options.aiParse)
                                 THEN <<"parseWithAI">> ELSE <<>>
               outcome ==
                   CASE detection.format \in {"openapi", "swagger"} ->
                            parseOpenAPI(detection.content)
                     [] detection.format = "postman" -> parsePostman(detection.content)
                     [] detection.format = "apib" -> parseAPIBlueprint(result)
                     [] OTHER -> IF Truthy(options.aiParse)
                                 THEN parseWithAI(Stringify(detection.content), apiKey)
                                 ELSE Threw("ParseError")
           IN /\ calls' = calls \o parser
              /\ normalized' = outcome
              /\ IF outcome.status = "returned"
                 THEN stage' = "analyze" /\ UNCHANGED exitCode
                 ELSE stage' = "exited" /\ exitCode' = Num(1)
    /\ UNCHANGED <<command, options, patterns, outputDir, written>>
    /\ UNCHANGED <<detectorVars, registryVars, notCommand>>

\* createCommand, lines 39-47: analyzePatterns and the output directory.
Analyze ==
    /\ stage = "analyze"
    /\ calls' = Append(calls, "analyzePatterns")
    /\ patterns' = analyzePatterns(normalized.schema)
    /\ outputDir' =
           Or(options.output,
              Str("/work/" \o Get(normalized.schema, "name").s \o "-mcp"))
    /\ stage' = "generate"
    /\ UNCHANGED <<command, options, normalized, written, exitCode>>
    /\ UNCHANGED <<detectorVars, registryVars, notCommand>>

\* generateServer up to fs.mkdir, which can fail.
generateServer ==
    /\ stage = "generate"
    /\ calls' = Append(calls, "generateServer")
    /\ \E made \in BOOLEAN :
           IF made THEN stage' = "file" /\ UNCHANGED exitCode
           ELSE stage' = "exited" /\ exitCode' = Num(1)
    /\ UNCHANGED <<command, options, normalized, patterns, outputDir, written>>
    /\ UNCHANGED <<detectorVars, registryVars, notCommand>>

\* generateFile that takes the eighth file for the last.
generateFile_EightFiles ==
    /\ stage = "file"
    /\ \E generated \in BOOLEAN :
           IF generated
           THEN /\ written' = Append(written, OutputFiles[Len(written) + 1])
                /\ stage' = IF Len(written) + 2 = Len(OutputFiles) THEN "register" ELSE "file"
                /\ UNCHANGED exitCode
           ELSE /\ stage' = "exited"
                /\ exitCode' = Num(1)
                /\ UNCHANGED written
    /\ UNCHANGED <<command, options, calls, normalized, patterns, outputDir>>
    /\ UNCHANGED <<detectorVars, registryVars, notCommand>>

\* generateFile of the next output file: the template is read, compiled
\* and run and the file written, or one of these fails with a
\* GenerationError.
generateFile ==
    /\ stage = "file"
    /\ \E generated \in BOOLEAN :
           IF generated
           THEN /\ written' = Append(written, OutputFiles[Len(written) + 1])
                /\ stage' = IF Len(written) + 1 = Len(OutputFiles) THEN "register" ELSE "file"
                /\ UNCHANGED exitCode
           ELSE /\ stage' = "exited"
                /\ exitCode' = Num(1)
                /\ UNCHANGED written
    /\ UNCHANGED <<command, options, calls, normalized, patterns, outputDir>>
    /\ UNCHANGED <<detectorVars, registryVars, notCommand>>

\* createCommand, line 52: addServer(schema.name, outputDir) is called.
addServer ==
    /\ stage = "register"
    /\ calls' = Append(calls, "addServer")
    /\ calling' = [calling EXCEPT !["first"] =
                       [op |-> "addServer", name |-> Get(normalized.schema, "name").s,
                        serverPath |-> outputDir.s]]
    /\ at' = [at EXCEPT !["first"] = "access"]
    /\ stage' = "registering"
    /\ UNCHANGED <<command, options, normalized, patterns, outputDir, written, exitCode>>
    /\ UNCHANGED <<registryFile, registry, reply, budget, now, log>>
    /\ UNCHANGED <<detectorVars, notCommand>>

\* createCommand, lines 54-59: addServer has returned and the command ends.
Finish ==
    /\ stage = "registering"
    /\ at["first"] = "idle"
    /\ stage' = "exited"
    /\ exitCode' = Num(0)
    /\ UNCHANGED <<command, options, calls, normalized, patterns, outputDir, written>>
    /\ UNCHANGED <<detectorVars, registryVars, notCommand>>

createCommand ==
    \/ Dispatch
    \/ Analyze
    \/ generateServer
    \/ generateFile
    \/ addServer
    \/ Finish

\* validateCommand after detectFormat returned: parseOpenAPI for the two
\* formats it knows, a warning for the others.
validateCommand ==
    /\ command = "validate"
    /\ stage = "detect"
    /\ detection.status = "returned"
    /\ IF detection.format \in {"openapi", "swagger"}
       THEN /\ calls' = Append(calls, "parseOpenAPI")
            /\ normalized' = parseOpenAPI(detection.content)
            /\ exitCode' = IF parseOpenAPI(detection.content).status = "returned"
                           THEN Num(0) ELSE Num(1)
       ELSE /\ exitCode' = Num(0)
            /\ UNCHANGED <<calls, normalized>>
    /\ stage' = "exited"
    /\ UNCHANGED <<command, options, patterns, outputDir, written>>
    /\ UNCHANGED <<detectorVars, registryVars, notCommand>>

CommandNext ==
    \/ detectFormat
    \/ DetectionFailed
    \/ createCommand
    \/ validateCommand
    \/ ensureRegistry("first")
    \/ createRegistry("first")
    \/ loadRegistry("first")
    \/ saveRegistry("first")

----------------------------------------------------------------------------
(* Properties of the format detector *)

IsBlueprintFile(f) ==
    \/ EndsWith(f.path, ".apib")
    \/ EndsWith(f.path, ".apiblueprint")
    \/ StartsWith(Trim(f.text), "FORMAT: 1A")

\* C7: a readable file whose path ends in .apib or .apiblueprint, or whose
\* trimmed text starts with "FORMAT: 1A", is returned as apib with the raw
\* file text as content, and neither JSON.parse nor yaml.parse is ever called
\* on it.
C7_BlueprintDetectedWithoutParsing ==
    (input.readable /\ IsBlueprintFile(input)) =>
        /\ attempts = <<>>
        /\ pc = "done" => detection = Returned("apib", Str(input.text))

\* A .apiblueprint file holding valid OpenAPI JSON has been classified.
C7_Witness ==
    /\ pc = "done"
    /\ input.path = "api.apiblueprint"
    /\ input.text = "{\"openapi\":\"3.0.1\"}"
    /\ detection.status = "returned"

\* The format the specification assigns to parsed content.
FormatByVersion(doc) ==
    LET openapi == OptGet(doc, "openapi")
        swagger == OptGet(doc, "swagger")
        infoSchema == OptGet(OptGet(doc, "info"), "schema")
    IN IF openapi.t = "string" /\ StartsWith(openapi.s, "3.") THEN "openapi"
       ELSE IF swagger = Str("2.0") THEN "swagger"
       ELSE IF infoSchema.t = "string" /\ Includes(infoSchema.s, "postman") THEN "postman"
       ELSE "unknown"

\* C8: on content that parses to a mapping, the result is openapi iff the
\* field openapi starts with "3.", else swagger iff the field swagger equals
\* "2.0", else postman iff info.schema contains "postman", else unknown, and
\* content is the parsed mapping. (Stated for mappings whose info.schema is
\* absent or a string.)
C8_ClassifiedByDeclaredVersion ==
    (/\ pc = "done"
     /\ parsed.t = "object"
     /\ OptGet(Get(parsed, "info"), "schema").t \in {"undefined", "string"})
    => detection = Returned(FormatByVersion(parsed), parsed)

\* C9: detectFormat fails only with ParseError, and only for an unreadable
\* path or for content that parses neither as JSON nor as YAML; every other
\* input, also one that parses to null, a scalar or a list, yields a result
\* whose format is one of the five tags.
C9_OnlyParseErrors ==
    pc = "done" =>
        IF ~input.readable
        THEN detection = Threw("ParseError") /\ attempts = <<>>
        ELSE IF /\ ~IsBlueprintFile(input)
                /\ JSONparse(input.text) = Thrown
                /\ YAMLparse(input.text) = Thrown
        THEN detection = Threw("ParseError")
        ELSE /\ detection.status = "returned"
             /\ detection.format \in {"openapi", "swagger", "postman", "apib", "unknown"}

----------------------------------------------------------------------------
(* Properties of the schema inference functions *)

\* What section 4.4 requires of the schema s inferred from the value v,
\* written as a relation between the two.
RECURSIVE MatchesValue(_, _)
MatchesValue(v, s) ==
    CASE v.t = "array" ->
            /\ s.t = "object" /\ Len(s.o) = 2
            /\ s.o[1] = Entry("type", Str("array"))
            /\ s.o[2].k = "items"
            /\ IF v.a = <<>> THEN s.o[2].v = Obj(<<Entry("type", Str("object"))>>)
               ELSE MatchesValue(Head(v.a), s.o[2].v)
      [] v.t = "object" ->
            /\ s.t = "object" /\ Len(s.o) = 3
            /\ s.o[1] = Entry("type", Str("object"))
            /\ s.o[2].k = "properties"
            /\ s.o[2].v.t = "object"
            /\ Len(s.o[2].v.o) = Len(v.o)
            /\ \A i \in 1..Len(v.o) :
                  /\ s.o[2].v.o[i].k = v.o[i].k
                  /\ MatchesValue(v.o[i].v, s.o[2].v.o[i].v)
            /\ s.o[3].k = "required"
            /\ s.o[3].v.t = "array"
            /\ Len(s.o[3].v.a) = Len(v.o)
            /\ \A i \in 1..Len(v.o) : s.o[3].v.a[i] = Str(v.o[i].k)
      [] v.t \in {"string", "number", "boolean"} ->
            s = Obj(<<Entry("type", Str(v.t))>>)
      [] OTHER -> s = Obj(<<Entry("type", Str("object"))>>)

\* C10: inferSchemaFromValue gives an array the items schema of its first
\* element only (a bare object for an empty array), an object one property
\* per key and required listing all its keys, at every depth, a string,
\* number or boolean the matching leaf, and null a bare object; [{"id":1}]
\* gives {array, items: {object, properties: {id: {number}}, required: [id]}}.
C10_InferredSchemaMatchesValue ==
    (call = "inferSchemaFromValue" /\ schemaType # Pending) =>
        /\ MatchesValue(value, schemaType)
        /\ value = Arr(<<Obj(<<Entry("id", Num(1))>>)>>) =>
              schemaType =
                Obj(<<Entry("type", Str("array")),
                      Entry("items",
                        Obj(<<Entry("type", Str("object")),
                              Entry("properties",
                                Obj(<<Entry("id", Obj(<<Entry("type", Str("number"))>>))>>)),
                              Entry("required", Arr(<<Str("id")>>))>>))>>)

\* The schema of an array whose first element is an object and whose second
\* is a string has been inferred.
C10_Witness ==
    /\ call = "inferSchemaFromValue"
    /\ schemaType # Pending
    /\ value = Arr(<<Obj(<<Entry("id", Num(1))>>), Str("x")>>)

\* s with every property whose value is undefined removed, at every depth:
\* what JSON.stringify keeps of it.
RECURSIVE StripUndefined(_)
StripUndefined(s) ==
    CASE s.t = "object" ->
            LET kept == SelectSeq(s.o, LAMBDA e : e.v # Undefined)
            IN Obj([i \in 1..Len(kept) |-> Entry(kept[i].k, StripUndefined(kept[i].v))])
      [] s.t = "array" -> Arr([i \in 1..Len(s.a) |-> StripUndefined(s.a[i])])
      [] OTHER -> s

\* Whether the SchemaType s is, or holds at any depth, an object schema
\* without a properties map.
RECURSIVE HasBareObject(_)
HasBareObject(s) ==
    \/ Get(s, "type") = Str("object") /\ ~HasKey(s, "properties")
    \/ \E i \in 1..Len(Entries(Get(s, "properties"))) :
          HasBareObject(Entries(Get(s, "properties"))[i].v)
    \/ HasKey(s, "items") /\ HasBareObject(Get(s, "items"))

IsObjectSchema(s) == s # Pending /\ Get(s, "type") = Str("object")

\* C6 as stated: parseSchema returns every canonical object SchemaType
\* unchanged, the bare object included.
C6_FixedPointOnEveryObjectSchema ==
    IsObjectSchema(schemaType) => parseSchema(schemaType) = schemaType

\* C6 as amended: parseSchema returns an object SchemaType that holds no bare
\* object unchanged up to properties whose value is undefined, and turns the
\* bare object into an object schema with empty properties and required.
C6_FixedPointWithoutBareObject ==
    IsObjectSchema(schemaType) =>
        /\ ~HasBareObject(schemaType) =>
              StripUndefined(parseSchema(schemaType)) = StripUndefined(schemaType)
        /\ schemaType = BareObject =>
              parseSchema(schemaType) =
                Obj(<<Entry("type", Str("object")),
                      Entry("properties", Obj(<<>>)),
                      Entry("required", Arr(<<>>))>>)

\* An inferred object schema with a required key and a nested array, holding
\* no bare object, is at hand.
C6_Witness ==
    /\ call = "inferSchemaFromValue"
    /\ value = Obj(<<Entry("id", Arr(<<Num(1)>>)), Entry("name", Str("x"))>>)
    /\ IsObjectSchema(schemaType)
    /\ ~HasBareObject(schemaType)

\* The keys of an object that hold a value, in order.
DefinedKeys(s) == [i \in 1..Len(Entries(StripUndefined(s))) |-> Entries(StripUndefined(s))[i].k]

\* Whether out is the SchemaType the rules for a declared node give: a
\* properties map makes an object schema when it holds a property, and an
\* empty one does when emptyCounts.
RECURSIVE Conforms(_, _, _)
Conforms(node, out, emptyCounts) ==
    LET type == Get(node, "type")
        declared == Entries(Get(node, "properties"))
        hasMap == Get(node, "properties").t = "object"
                  /\ (emptyCounts \/ Len(declared) > 0)
    IN IF IsNullish(node) THEN out = Obj(<<Entry("type", Str("string"))>>)
       ELSE IF type = Str("object") \/ hasMap
       THEN /\ DefinedKeys(out) = <<"type", "properties", "required">>
            /\ Get(out, "type") = Str("object")
            /\ Len(Entries(Get(out, "properties"))) = Len(declared)
            /\ \A i \in 1..Len(declared) :
                   /\ Entries(Get(out, "properties"))[i].k = declared[i].k
                   /\ Conforms(declared[i].v, Entries(Get(out, "properties"))[i].v,
                               emptyCounts)
            /\ Get(out, "required") =
                   (IF HasKey(node, "required") THEN Get(node, "required") ELSE Arr(<<>>))
       ELSE IF type = Str("array")
       THEN /\ DefinedKeys(out) = <<"type", "items">>
            /\ Get(out, "type") = Str("array")
            /\ Conforms(Get(node, "items"), Get(out, "items"), emptyCounts)
       ELSE IF Get(node, "enum").t = "array"
       THEN /\ DefinedKeys(out) = <<"type", "enum">>
            /\ Get(out, "type") = (IF HasKey(node, "type") THEN type ELSE Str("string"))
            /\ Get(out, "enum") = Get(node, "enum")
       ELSE /\ DefinedKeys(out) =
                   (IF HasKey(node, "format") THEN <<"type", "format">> ELSE <<"type">>)
            /\ Get(out, "type") = (IF HasKey(node, "type") THEN type ELSE Str("string"))
            /\ Get(out, "format") = Get(node, "format")

ParsedSchema == call = "parseSchema" /\ schemaType # Pending

\* C11 as stated: parseSchema gives a bare string leaf for an absent or null
\* node, an object schema (declared properties parsed recursively, declared
\* required list verbatim) for type object or a non-empty properties map, an
\* array schema with parsed items for type array, the declared or default
\* type with the list for an enum, and otherwise a leaf of the declared or
\* default type with its optional format; an empty properties map under a
\* type other than object makes no object schema.
C11_ParsedByDeclaredShape == ParsedSchema => Conforms(value, schemaType, FALSE)

\* C11 as amended: the same, with every properties map, the empty one
\* included, making an object schema.
C11_ParsedByDeclaredShapeOrAnyMap == ParsedSchema => Conforms(value, schemaType, TRUE)

\* A parsed node with a nested array of enums and a required list naming a
\* key that is no property.
C11_Witness ==
    /\ ParsedSchema
    /\ value = Obj(<<Entry("properties", Obj(<<Entry("id",
                   Obj(<<Entry("type", Str("array")),
                         Entry("items", Obj(<<Entry("type", Str("string")),
                             Entry("enum", Arr(<<Str("asc"), Str("desc")>>))>>))>>))>>)),
                     Entry("required", Arr(<<Str("id"), Str("ghost")>>))>>)
    /\ Get(schemaType, "required") = Arr(<<Str("id"), Str("ghost")>>)

\* C27 as stated: parsing the SchemaType that parseSchema returned gives
\* that SchemaType again.
C27_ParseSchemaIdempotent ==
    (call = "parseSchema" /\ schemaType # Pending) => parseSchema(schemaType) = schemaType

\* C27 as amended: parsing the SchemaType that parseSchema returned gives
\* that SchemaType again, up to properties whose value is undefined.
C27_ParseSchemaIdempotentUpToUndefined ==
    (call = "parseSchema" /\ schemaType # Pending) =>
        StripUndefined(parseSchema(schemaType)) = StripUndefined(schemaType)

\* An array without items: its items are the default leaf without a format
\* key, which comes back with the key format and the value undefined.
C27_Witness ==
    /\ call = "parseSchema"
    /\ value = Obj(<<Entry("type", Str("array"))>>)
    /\ schemaType = Obj(<<Entry("type", Str("array")),
                          Entry("items", Obj(<<Entry("type", Str("string"))>>))>>)
    /\ parseSchema(schemaType) =
           Obj(<<Entry("type", Str("array")),
                 Entry("items", Obj(<<Entry("type", Str("string")),
                                      Entry("format", Undefined)>>))>>)

----------------------------------------------------------------------------
(* Properties of the OpenAPI/Swagger normalizer *)

VerbMethod ==
    [get |-> "GET", post |-> "POST", put |-> "PUT", patch |-> "PATCH",
     delete |-> "DELETE", options |-> "OPTIONS", head |-> "HEAD"]

\* The (path, verb) pairs of a document under which an operation is declared.
DeclaredOperations(doc) ==
    LET paths == Entries(OptGet(doc, "paths")) IN
    {pair \in {<<paths[i].k, verb>> : i \in 1..Len(paths), verb \in DOMAIN VerbMethod} :
        \E i \in 1..Len(paths) :
            paths[i].k = pair[1] /\ Truthy(Get(paths[i].v, pair[2]))}

Endpoints(result) == Get(result.schema, "endpoints").a

\* C1: an accepted document with an operation under N distinct (path, verb)
\* pairs, verb among the seven of the methods list, yields exactly N
\* endpoints, one per pair, with the pair's path and the upper-cased verb as
\* method; other keys of a path item yield none.
C1_OneEndpointPerOperation ==
    apiSchema.status = "returned" =>
        /\ Len(Endpoints(apiSchema)) = Cardinality(DeclaredOperations(spec))
        /\ \A pair \in DeclaredOperations(spec) :
              \E i \in 1..Len(Endpoints(apiSchema)) :
                  /\ Get(Endpoints(apiSchema)[i], "path") = Str(pair[1])
                  /\ Get(Endpoints(apiSchema)[i], "method") = Str(VerbMethod[pair[2]])

\* A document with a trace and an options operation under one path and a
\* head operation and a null delete under another has been normalized.
C1_Witness ==
    /\ apiSchema.status = "returned"
    /\ spec = Document(Obj(<<
          Entry("/a/b", Obj(<<Entry("trace", Operation), Entry("options", Operation)>>)),
          Entry("/a", Obj(<<Entry("head", Operation), Entry("delete", Null)>>))>>))
    /\ Len(Endpoints(apiSchema)) = 2

\* C3: parseOpenAPI either returns a schema with name, baseUrl, auth and
\* endpoints all populated or fails with ParseError, also for a document
\* whose version declaration is unsupported or missing and for a document
\* without an info object.
C3_SchemaOrParseError ==
    /\ apiSchema.status = "thrown" => apiSchema.error = "ParseError"
    /\ apiSchema.status = "returned" =>
          \A field \in {"name", "baseUrl", "auth", "endpoints"} :
              ~IsNullish(Get(apiSchema.schema, field))

\* C4: every endpoint of a returned schema has method GET, POST, PUT, PATCH
\* or DELETE.
C4_MethodAmongFiveVerbs ==
    apiSchema.status = "returned" =>
        \A i \in 1..Len(Endpoints(apiSchema)) :
            Get(Endpoints(apiSchema)[i], "method")
                \in {Str("GET"), Str("POST"), Str("PUT"), Str("PATCH"), Str("DELETE")}

CanonicalTypes == {Str("string"), Str("number"), Str("boolean"), Str("object"), Str("array")}

\* Whether every node of the SchemaType s, s included, has a canonical type.
RECURSIVE CanonicalAtEveryDepth(_)
CanonicalAtEveryDepth(s) ==
    /\ Get(s, "type") \in CanonicalTypes
    /\ \A i \in 1..Len(Entries(Get(s, "properties"))) :
          CanonicalAtEveryDepth(Entries(Get(s, "properties"))[i].v)
    /\ HasKey(s, "items") => CanonicalAtEveryDepth(Get(s, "items"))

\* The SchemaTypes an endpoint holds: of its parameters, request body,
\* response and errors.
EndpointSchemas(endpoint) ==
    LET parameters == Get(endpoint, "parameters").a
        errors == Get(endpoint, "errors").a
    IN {Get(parameters[i], "schema") : i \in 1..Len(parameters)}
       \cup {Get(errors[i], "schema") : i \in 1..Len(errors)}
       \cup {OptGet(Get(endpoint, "requestBody"), "schema"),
             Get(Get(endpoint, "response"), "schema")}

\* C5: every SchemaType node of a returned schema, at every depth, has type
\* string, number, boolean, object or array, whatever type the document
\* declares.
C5_CanonicalTypes ==
    apiSchema.status = "returned" =>
        \A i \in 1..Len(Endpoints(apiSchema)) :
            \A s \in EndpointSchemas(Endpoints(apiSchema)[i]) :
                s # Undefined => CanonicalAtEveryDepth(s)

\* The first declared security scheme of a document: of the securitySchemes
\* map of its components when it has one, else of its securityDefinitions.
DeclaredSchemes(doc) ==
    IF HasKey(Get(doc, "components"), "securitySchemes")
    THEN Entries(Get(Get(doc, "components"), "securitySchemes"))
    ELSE Entries(Get(doc, "securityDefinitions"))

\* The kind of credentials a declared scheme asks for.
SchemeKind(scheme) ==
    CASE Get(scheme, "type") = Str("apiKey") -> "api-key"
      [] Get(scheme, "type") = Str("http") /\ Get(scheme, "scheme") = Str("bearer") ->
             "bearer"
      [] Get(scheme, "type") = Str("http") /\ Get(scheme, "scheme") = Str("basic") ->
             "basic"
      [] Get(scheme, "type") = Str("oauth2") -> "oauth"
      [] OTHER -> "none"

Auth(result) == Get(result.schema, "auth")

\* C12: the auth of a returned schema is decided by the first declared
\* security scheme alone: api-key for apiKey, with location header when the
\* scheme is declared in header and query otherwise, bearer for http with
\* scheme bearer, basic for http with scheme basic, oauth for oauth2, and
\* none for any other scheme and when no scheme is declared.
C12_AuthFromFirstScheme ==
    apiSchema.status = "returned" =>
        LET schemes == DeclaredSchemes(spec) IN
        /\ schemes = <<>> => StripUndefined(Auth(apiSchema)) = Obj(<<Entry("type", Str("none"))>>)
        /\ schemes # <<>> =>
              /\ Get(Auth(apiSchema), "type") = Str(SchemeKind(schemes[1].v))
              /\ SchemeKind(schemes[1].v) = "api-key" =>
                    Get(Auth(apiSchema), "location") =
                        (IF Get(schemes[1].v, "in") = Str("header")
                         THEN Str("header") ELSE Str("query"))
              /\ SchemeKind(schemes[1].v) # "api-key" => ~HasKey(Auth(apiSchema), "location")

\* A document declaring a cookie apiKey scheme before an http bearer scheme
\* has been normalized to api-key credentials in the query.
C12_Witness ==
    /\ apiSchema.status = "returned"
    /\ Len(DeclaredSchemes(spec)) = 2
    /\ Get(DeclaredSchemes(spec)[1].v, "in") = Str("cookie")
    /\ SchemeKind(DeclaredSchemes(spec)[2].v) = "bearer"
    /\ Get(Auth(apiSchema), "type") = Str("api-key")
    /\ Get(Auth(apiSchema), "location") = Str("query")

\* The operation an endpoint was built from: the one declared under its path
\* and the verb of its method.
OperationOf(doc, endpoint) ==
    Get(Get(Get(doc, "paths"), Get(endpoint, "path").s),
        CHOOSE verb \in DOMAIN VerbMethod : Str(VerbMethod[verb]) = Get(endpoint, "method"))

DeclaredResponses(doc, endpoint) == Entries(Get(OperationOf(doc, endpoint), "responses"))

\* The numbers the status codes of the documents spell.
StatusNumber ==
    "100" :> 100 @@ "200" :> 200 @@ "201" :> 201 @@ "302" :> 302 @@ "400" :> 400
    @@ "404" :> 404 @@ "500" :> 500

SpellsNumber(key, number) == key \in DOMAIN StatusNumber => number = Num(StatusNumber[key])

\* The application/json schema a response declares, undefined or null when
\* it declares none.
DeclaredSchema(resp) == Get(Get(Get(resp, "content"), "application/json"), "schema")

Successful(responses) == {i \in 1..Len(responses) : SubSeq(responses[i].k, 1, 1) = "2"}

\* The descriptions an endpoint holds for its response and its errors.
Descriptions(endpoint) ==
    {Get(Get(endpoint, "response"), "description")}
    \cup {Get(Get(endpoint, "errors").a[i], "description") :
             i \in 1..Len(Get(endpoint, "errors").a)}

Failed(responses) ==
    {i \in 1..Len(responses) :
        SubSeq(responses[i].k, 1, 1) # "2" /\ responses[i].k # "default"}

\* C14: the errors of an endpoint hold exactly one entry for each response
\* of its operation whose key neither starts with 2 nor is default, codes of
\* the classes 1xx and 3xx included, in the enumeration order of the
\* responses; its statusCode is the key as a number, and it has a schema iff
\* the response declares an application/json schema.
C14_OneErrorPerFailedResponse ==
    apiSchema.status = "returned" =>
        \A e \in 1..Len(Endpoints(apiSchema)) :
            LET errors == Get(Endpoints(apiSchema)[e], "errors").a
                responses == DeclaredResponses(spec, Endpoints(apiSchema)[e])
            IN /\ Len(errors) = Cardinality(Failed(responses))
               /\ \A i \in Failed(responses) :
                     LET error == errors[Cardinality({j \in Failed(responses) : j <= i})]
                     IN /\ SpellsNumber(responses[i].k, Get(error, "statusCode"))
                        /\ Get(error, "schema") # Undefined
                               <=> ~IsNullish(DeclaredSchema(responses[i].v))

\* An operation declaring 100, 200, 302, 404 and default has been normalized
\* to the errors 100, 302 and 404, of which some have a schema and some none.
C14_Witness ==
    /\ apiSchema.status = "returned"
    /\ Len(Endpoints(apiSchema)) = 1
    /\ LET responses == DeclaredResponses(spec, Endpoints(apiSchema)[1])
           errors == Get(Endpoints(apiSchema)[1], "errors").a
       IN /\ [i \in 1..Len(responses) |-> responses[i].k]
                 = <<"100", "200", "302", "404", "default">>
          /\ [i \in 1..Len(errors) |-> Get(errors[i], "statusCode")]
                 = <<Num(100), Num(302), Num(404)>>
          /\ \E i, j \in 1..Len(errors) :
                 Get(errors[i], "schema") = Undefined /\ Get(errors[j], "schema") # Undefined

\* The parameters declared for an endpoint: those of its path item, then
\* those of its operation.
DeclaredFor(doc, endpoint) ==
    LET pathLevel == Get(Get(Get(doc, "paths"), Get(endpoint, "path").s), "parameters")
        operationLevel == Get(OperationOf(doc, endpoint), "parameters")
    IN (IF pathLevel.t = "array" THEN pathLevel.a ELSE <<>>)
       \o (IF operationLevel.t = "array" THEN operationLevel.a ELSE <<>>)

Retained(declared) ==
    {i \in 1..Len(declared) :
        /\ ~HasKey(declared[i], "$ref")
        /\ \E location \in {"path", "query", "header"} :
               Get(declared[i], "in") = Str(location)}

\* C15: the parameters of an endpoint are the parameters of its path item
\* followed by those of its operation, each in declared order, less the
\* entries with a $ref and those located elsewhere than in path, query or
\* header; a parameter declared at both levels appears twice; and a document
\* declaring a $ref, body, formData or cookie parameter is normalized all
\* the same.
C15_ParametersOfBothLevels ==
    /\ (spec \in ParametersDocuments /\ apiSchema # Pending) => apiSchema.status = "returned"
    /\ apiSchema.status = "returned" =>
          \A e \in 1..Len(Endpoints(apiSchema)) :
              LET parameters == Get(Endpoints(apiSchema)[e], "parameters").a
                  declared == DeclaredFor(spec, Endpoints(apiSchema)[e])
              IN /\ Len(parameters) = Cardinality(Retained(declared))
                 /\ \A i \in Retained(declared) :
                       LET parameter ==
                               parameters[Cardinality({j \in Retained(declared) : j <= i})]
                       IN /\ Get(parameter, "name") = Get(declared[i], "name")
                          /\ Get(parameter, "in") = Get(declared[i], "in")

\* A path item declaring a $ref and the path parameter id, whose operation
\* declares a body parameter and the path parameter id again, has been
\* normalized to the two id parameters.
C15_Witness ==
    /\ apiSchema.status = "returned"
    /\ Len(Endpoints(apiSchema)) = 1
    /\ LET declared == DeclaredFor(spec, Endpoints(apiSchema)[1])
           parameters == Get(Endpoints(apiSchema)[1], "parameters").a
       IN /\ Len(declared) = 4
          /\ HasKey(declared[1], "$ref")
          /\ Get(declared[3], "in") = Str("body")
          /\ declared[2] = declared[4]
          /\ Len(parameters) = 2
          /\ parameters[1] = parameters[2]
          /\ Get(parameters[1], "in") = Str("path")

\* The application/json schema the request body of an operation declares.
DeclaredBodySchema(operation) ==
    Get(Get(Get(Get(operation, "requestBody"), "content"), "application/json"), "schema")

\* C16: an endpoint has a requestBody iff its operation declares
\* requestBody.content["application/json"].schema; the requestBody then has
\* contentType application/json, the declared required flag or false, and
\* the parsed schema. A body declared as a parameter in body gives neither a
\* requestBody nor a parameter.
C16_RequestBodyFromJSONSchema ==
    apiSchema.status = "returned" =>
        \A e \in 1..Len(Endpoints(apiSchema)) :
            LET endpoint == Endpoints(apiSchema)[e]
                requestBody == Get(endpoint, "requestBody")
                operation == OperationOf(spec, endpoint)
                declared == DeclaredBodySchema(operation)
            IN /\ requestBody # Undefined <=> ~IsNullish(declared)
               /\ requestBody # Undefined =>
                     /\ Get(requestBody, "contentType") = Str("application/json")
                     /\ Get(requestBody, "required") =
                            (IF HasKey(Get(operation, "requestBody"), "required")
                             THEN Get(Get(operation, "requestBody"), "required")
                             ELSE Bool(FALSE))
                     /\ Get(requestBody, "schema") = parseSchema(declared)
               /\ \A n \in 1..Len(Get(endpoint, "parameters").a) :
                     Get(Get(endpoint, "parameters").a[n], "in") # Str("body")

\* A document with an operation whose body is a parameter in body and an
\* operation declaring a JSON request body after another media type has been
\* normalized: the first endpoint has no request body and no parameter, the
\* second the request body of the JSON media type.
C16_Witness ==
    /\ apiSchema.status = "returned"
    /\ Len(Endpoints(apiSchema)) = 2
    /\ LET post == Endpoints(apiSchema)[1]
           put == Endpoints(apiSchema)[2]
       IN /\ Len(DeclaredFor(spec, post)) = 1
          /\ Get(DeclaredFor(spec, post)[1], "in") = Str("body")
          /\ Get(post, "requestBody") = Undefined
          /\ Get(post, "parameters") = Arr(<<>>)
          /\ Len(Entries(Get(Get(OperationOf(spec, put), "requestBody"), "content"))) = 2
          /\ Get(Get(Get(put, "requestBody"), "schema"), "type") = Str("array")
          /\ Get(Get(put, "requestBody"), "required") = Bool(FALSE)

\* The paths of the documents with every slash turned into an underscore.
Underscored ==
    "/a" :> "_a" @@ "/a/b" :> "_a_b" @@ "/a_b" :> "_a_b" @@ "/pets" :> "_pets"
    @@ "/pets/{id}" :> "_pets_{id}"

Ids(result) == [i \in 1..Len(Endpoints(result)) |-> Get(Endpoints(result)[i], "id")]

\* C17: the id of an endpoint is the operationId of its operation when it
\* declares one, else the verb, an underscore, and the path with every slash
\* replaced by an underscore; nothing else enters it and no endpoint is
\* dropped for its id, so that equal operationIds, and paths equal after the
\* replacement under one verb, give endpoints with equal ids.
C17_IdFromOperationIdOrVerbAndPath ==
    apiSchema.status = "returned" =>
        /\ Len(Ids(apiSchema)) = Cardinality(DeclaredOperations(spec))
        /\ \A e \in 1..Len(Endpoints(apiSchema)) :
               LET endpoint == Endpoints(apiSchema)[e]
                   operationId == Get(OperationOf(spec, endpoint), "operationId")
                   verb == CHOOSE v \in DOMAIN VerbMethod :
                               Str(VerbMethod[v]) = Get(endpoint, "method")
               IN Get(endpoint, "id") =
                      (IF operationId.t = "string" /\ operationId.s # "" THEN operationId
                       ELSE Str(verb \o "_" \o Underscored[Get(endpoint, "path").s]))

\* A returned schema with four endpoints and two ids: two operations of the
\* paths /a/b and /a_b under get, and two declaring the operationId listPets.
C17_Witness ==
    /\ apiSchema.status = "returned"
    /\ Ids(apiSchema) = <<Str("get__a_b"), Str("listPets"), Str("get__a_b"), Str("listPets")>>
    /\ [i \in 1..4 |-> Get(Endpoints(apiSchema)[i], "path")]
           = <<Str("/a/b"), Str("/a/b"), Str("/a_b"), Str("/a_b")>>

\* The text a document declares under a key, the empty string when it
\* declares none.
DeclaredText(doc, key) == IF Get(doc, key).t = "string" THEN Get(doc, key).s ELSE ""

\* What a document declares under a key that holds a list, the empty list
\* when it declares none.
DeclaredList(doc, key) == IF Get(doc, key).t = "array" THEN Get(doc, key).a ELSE <<>>

BaseUrl == Get(apiSchema.schema, "baseUrl")

\* C22: the base URL of a returned schema is the URL of the first declared
\* server when the document declares servers, in a Swagger 2.0 document too;
\* without servers and with a host it is the scheme, "://", the host and the
\* basePath, where the scheme is the first of schemes, https when there is
\* none, and the basePath is empty when not declared; without servers and
\* host it is the empty string.
C22_BaseUrlFromServersOrHost ==
    apiSchema.status = "returned" =>
        LET servers == DeclaredList(spec, "servers")
            schemes == DeclaredList(spec, "schemes")
            host == DeclaredText(spec, "host")
        IN /\ servers # <<>> => BaseUrl = Str(DeclaredText(servers[1], "url"))
           /\ servers = <<>> /\ host # "" =>
                  /\ schemes # <<>> =>
                         BaseUrl = Str(schemes[1].s \o "://" \o host
                                       \o DeclaredText(spec, "basePath"))
                  /\ schemes = <<>> =>
                         BaseUrl = Str("https://" \o host \o DeclaredText(spec, "basePath"))
           /\ servers = <<>> /\ host = "" => BaseUrl = Str("")

\* The Swagger 2.0 document of host api.x.com, schemes [https] and basePath
\* /v1, without servers, gives https://api.x.com/v1.
C22_Witness ==
    /\ apiSchema.status = "returned"
    /\ Get(spec, "swagger") = Str("2.0")
    /\ ~HasKey(spec, "servers")
    /\ Get(spec, "host") = Str("api.x.com")
    /\ Get(spec, "schemes") = Arr(<<Str("https")>>)
    /\ Get(spec, "basePath") = Str("/v1")
    /\ BaseUrl = Str("https://api.x.com/v1")

----------------------------------------------------------------------------
(* Properties of the API Blueprint normalizer *)

Children(node) ==
    IF node.t = "object" /\ Get(node, "content").t = "array"
    THEN Get(node, "content").a ELSE <<>>

\* The positions of the nodes of a tree: a position is the sequence of the
\* indices that lead from the root to the node, child by child.
RECURSIVE Positions(_)
Positions(node) ==
    {<<>>} \cup UNION {{<<i>> \o p : p \in Positions(Children(node)[i])} :
                          i \in 1..Len(Children(node))}

RECURSIVE NodeAt(_, _)
NodeAt(node, p) ==
    IF p = <<>> THEN node ELSE NodeAt(Children(node)[Head(p)], Tail(p))

IsElement(node, name) == node.t = "object" /\ Get(node, "element") = Str(name)

\* A resource every ancestor of which, below the root, is a category.
ReachableResource(root, p) ==
    /\ Len(p) >= 1
    /\ IsElement(NodeAt(root, p), "resource")
    /\ \A n \in 1..(Len(p) - 1) : IsElement(NodeAt(root, SubSeq(p, 1, n)), "category")

HasTransaction(transition) ==
    \E i \in 1..Len(Children(transition)) :
        IsElement(Children(transition)[i], "httpTransaction")

\* The transitions of the reachable resources, and those of them that hold
\* an httpTransaction.
ResourceTransitions(root) ==
    {p \in Positions(root) :
        /\ Len(p) >= 2
        /\ ReachableResource(root, SubSeq(p, 1, Len(p) - 1))
        /\ IsElement(NodeAt(root, p), "transition")}

Documented(root) == {p \in ResourceTransitions(root) : HasTransaction(NodeAt(root, p))}

\* p comes before q in document order.
Precedes(p, q) ==
    \E n \in 1..Len(q) :
        /\ n - 1 <= Len(p)
        /\ SubSeq(p, 1, n - 1) = SubSeq(q, 1, n - 1)
        /\ (Len(p) = n - 1 \/ p[n] < q[n])

Rank(root, p) == Cardinality({q \in Documented(root) : Precedes(q, p)}) + 1

\* The endpoint of a transition: built from its first httpTransaction and
\* the href of its resource.
FirstTransaction(transition) ==
    Children(transition)[CHOOSE i \in 1..Len(Children(transition)) :
        /\ IsElement(Children(transition)[i], "httpTransaction")
        /\ \A j \in 1..(i - 1) : ~IsElement(Children(transition)[j], "httpTransaction")]

EndpointAt(root, p) ==
    LET declared == Get(Get(Get(NodeAt(root, SubSeq(p, 1, Len(p) - 1)), "attributes"),
                            "href"), "content")
    IN parseAction(FirstTransaction(NodeAt(root, p)),
                   IF declared.t = "string" THEN declared ELSE Str(""),
                   NodeAt(root, p))

BlueprintEndpoints == Get(blueprint.schema, "endpoints").a

\* C2: the endpoint list of a returned schema holds exactly one endpoint for
\* each transition with an httpTransaction child, of each resource reachable
\* from the top level through category nodes only, at whatever depth; the
\* endpoint is the one built from the first such child, and the endpoints
\* stand in depth-first document order. Transitions without an
\* httpTransaction child contribute nothing.
C2_OneEndpointPerDocumentedTransition ==
    blueprint.status = "returned" =>
        /\ Len(BlueprintEndpoints) = Cardinality(Documented(drafted))
        /\ \A p \in Documented(drafted) :
               BlueprintEndpoints[Rank(drafted, p)] = EndpointAt(drafted, p)

\* A returned schema of a document whose resources lie up to four categories
\* deep, one of them with a transition that is skipped and one with a
\* transition of two transactions.
C2_Witness ==
    /\ blueprint.status = "returned"
    /\ \E p \in Documented(drafted) : Len(p) >= 6
    /\ \E p \in Documented(drafted) : Len(p) = 4
    /\ \E p \in ResourceTransitions(drafted) \ Documented(drafted) : Len(p) >= 4
    /\ \E p \in Documented(drafted) :
           /\ Get(FirstTransaction(NodeAt(drafted, p)), "content").a[1]
                  = HttpRequest("put")
           /\ Get(BlueprintEndpoints[Rank(drafted, p)], "method") = Str("PUT")
    /\ Len(BlueprintEndpoints) >= 5

\* The title of a node, the empty string when it has none.
Title(node) ==
    IF Get(Get(Get(node, "meta"), "title"), "content").t = "string"
    THEN Get(Get(Get(node, "meta"), "title"), "content").s ELSE ""

\* The text of the first child of a node that is the element name, the
\* empty string when it has no such child.
ChildText(node, name) ==
    LET found == {i \in 1..Len(Children(node)) : IsElement(Children(node)[i], name)}
    IN IF found = {} THEN ""
       ELSE Get(Children(node)[CHOOSE i \in found : \A j \in found : i <= j], "content").s

FirstChild(node, name) ==
    LET found == {i \in 1..Len(Children(node)) : IsElement(Children(node)[i], name)}
    IN IF found = {} THEN Undefined
       ELSE Children(node)[CHOOSE i \in found : \A j \in found : i <= j]

\* The first text of a sequence that is not empty, the empty string when
\* all are.
FirstNonEmpty(texts) ==
    LET filled == {i \in 1..Len(texts) : texts[i] # ""}
    IN IF filled = {} THEN "" ELSE texts[CHOOSE i \in filled : \A j \in filled : i <= j]

\* C18: the description of an endpoint is the first that is not empty of the
\* content of a copy element directly under its transition, the title of the
\* transition, the title of the httpTransaction and the title of the
\* request, and the empty string when all are absent or empty.
C18_DescriptionByFallbackChain ==
    blueprint.status = "returned" =>
        \A p \in Documented(drafted) :
            LET transition == NodeAt(drafted, p)
                transaction == FirstTransaction(transition)
            IN Get(BlueprintEndpoints[Rank(drafted, p)], "description") =
                   Str(FirstNonEmpty(<<ChildText(transition, "copy"),
                                       Title(transition),
                                       Title(transaction),
                                       Title(FirstChild(transaction, "httpRequest"))>>))

\* An endpoint described by the title of its request: its transition has an
\* empty copy element and an empty title, its transaction no title.
C18_Witness ==
    /\ blueprint.status = "returned"
    /\ drafted \in DescribedResults
    /\ \E p \in Documented(drafted) :
           /\ FirstChild(NodeAt(drafted, p), "copy") = Copy("")
           /\ HasKey(Get(NodeAt(drafted, p), "meta"), "title")
           /\ Title(NodeAt(drafted, p)) = ""
           /\ ~HasKey(FirstTransaction(NodeAt(drafted, p)), "meta")
           /\ Get(BlueprintEndpoints[Rank(drafted, p)], "description") = Str("Request title")

\* The keys and the strings of a value, at every depth.
RECURSIVE Texts(_)
Texts(v) ==
    CASE v.t = "string" -> {v.s}
      [] v.t = "array" -> UNION {Texts(v.a[i]) : i \in 1..Len(v.a)}
      [] v.t = "object" ->
             {v.o[i].k : i \in 1..Len(v.o)} \cup UNION {Texts(v.o[i].v) : i \in 1..Len(v.o)}
      [] OTHER -> {}

\* The kinds of auth in the order of their precedence, each with its markers.
MarkerKinds ==
    << [type |-> "bearer", markers |-> {"Authorization", "bearer"}],
       [type |-> "api-key", markers |-> {"api-key", "apiKey", "X-API-Key"}],
       [type |-> "oauth", markers |-> {"oauth", "OAuth"}],
       [type |-> "basic", markers |-> {"Basic"}] >>

Marked(tree, kind) ==
    \E text \in Texts(tree) : \E marker \in MarkerKinds[kind].markers : Includes(text, marker)

BlueprintAuth == Get(blueprint.schema, "auth")

\* C19: the auth of a returned schema is bearer (in header, named
\* Authorization) when a text of the tree holds Authorization or bearer;
\* else api-key (in header, named X-API-Key) when one holds api-key, apiKey
\* or X-API-Key; else oauth when one holds oauth or OAuth; else basic when
\* one holds Basic; else none. The match is by case, and the earliest kind
\* wins when markers of several kinds are there.
C19_AuthByMarkerPrecedence ==
    blueprint.status = "returned" =>
        LET marked == {kind \in 1..Len(MarkerKinds) : Marked(drafted, kind)}
            kind == CHOOSE k \in marked : \A other \in marked : k <= other
        IN /\ marked = {} => BlueprintAuth = Obj(<<Entry("type", Str("none"))>>)
           /\ marked # {} =>
                 /\ Get(BlueprintAuth, "type") = Str(MarkerKinds[kind].type)
                 /\ kind = 1 => /\ Get(BlueprintAuth, "location") = Str("header")
                                /\ Get(BlueprintAuth, "name") = Str("Authorization")
                 /\ kind = 2 => /\ Get(BlueprintAuth, "location") = Str("header")
                                /\ Get(BlueprintAuth, "name") = Str("X-API-Key")

\* A tree with a request header named Basic and a copy element speaking of
\* Authorization has been given bearer auth.
C19_Witness ==
    /\ blueprint.status = "returned"
    /\ drafted \in MarkedResults
    /\ Marked(drafted, 4)
    /\ \E text \in Texts(drafted) : Includes(text, "Authorization")
    /\ ~Marked(drafted, 2)
    /\ ~Marked(drafted, 3)
    /\ Get(BlueprintAuth, "type") = Str("bearer")

\* The text of the first asset of a node, the empty string when the node
\* has no asset or the asset no text.
HasAsset(node) == FirstChild(node, "asset") # Undefined

AssetText(node) ==
    IF HasAsset(node) /\ Get(FirstChild(node, "asset"), "content").t = "string"
    THEN Get(FirstChild(node, "asset"), "content").s ELSE ""

\* The schema of a body text: inferred from the value the text parses to,
\* a bare object when it does not parse as JSON.
SchemaOfText(text) ==
    IF text = "" THEN BareObject
    ELSE IF JSONparse(text) = Thrown THEN BareObject
    ELSE inferSchemaFromValue(JSONparse(text))

StatusText(response) ==
    IF Get(Get(Get(response, "attributes"), "statusCode"), "content").t = "string"
    THEN Get(Get(Get(response, "attributes"), "statusCode"), "content").s ELSE ""

\* The responses of a transaction with a status code of 400 or more.
ErrorResponses(transaction) ==
    {i \in 1..Len(Children(transaction)) :
        /\ IsElement(Children(transaction)[i], "httpResponse")
        /\ StatusText(Children(transaction)[i]) \in DOMAIN StatusNumber
        /\ StatusNumber[StatusText(Children(transaction)[i])] >= 400}

Href(node) ==
    IF Get(Get(Get(node, "attributes"), "href"), "content").t = "string"
    THEN Get(Get(Get(node, "attributes"), "href"), "content").s ELSE ""

\* The method a request declares, the empty string when there is no request
\* or it declares none.
DeclaredMethod(request) ==
    IF Get(Get(Get(request, "attributes"), "method"), "content").t = "string"
    THEN Get(Get(Get(request, "attributes"), "method"), "content").s ELSE ""

\* The declared methods in upper case.
UpperCased ==
    [get |-> "GET", GET |-> "GET", put |-> "PUT", Post |-> "POST", POST |-> "POST",
     DELETE |-> "DELETE"]

\* C21: the method of an endpoint is the declared method of the request of
\* its transaction in upper case, and GET when the transaction has no
\* request or the request declares no method; its path is the href of the
\* request when the request declares one that is not empty, else the href of
\* the enclosing resource, else the empty string.
C21_MethodAndPathFromRequest ==
    blueprint.status = "returned" =>
        \A p \in Documented(drafted) :
            LET resource == NodeAt(drafted, SubSeq(p, 1, Len(p) - 1))
                request == FirstChild(FirstTransaction(NodeAt(drafted, p)), "httpRequest")
                endpoint == BlueprintEndpoints[Rank(drafted, p)]
            IN /\ Get(endpoint, "method") =
                      Str(IF DeclaredMethod(request) = "" THEN "GET"
                          ELSE UpperCased[DeclaredMethod(request)])
               /\ Get(endpoint, "path") =
                      Str(IF Href(request) # "" THEN Href(request) ELSE Href(resource))

\* A request that declares the method Post and an empty href, under a
\* resource of /pets: the endpoint is POST /pets.
C21_Witness ==
    /\ blueprint.status = "returned"
    /\ drafted \in RoutedResults
    /\ \E p \in Documented(drafted) :
           LET request == FirstChild(FirstTransaction(NodeAt(drafted, p)), "httpRequest")
           IN /\ DeclaredMethod(request) = "Post"
              /\ HasKey(Get(request, "attributes"), "href")
              /\ Href(request) = ""
              /\ Get(BlueprintEndpoints[Rank(drafted, p)], "method") = Str("POST")
              /\ Get(BlueprintEndpoints[Rank(drafted, p)], "path") = Str("/pets")

\* The status code of the response of an endpoint is that of one of its
\* errors.
ResponseAmongErrors(endpoint) ==
    \E i \in 1..Len(Get(endpoint, "errors").a) :
        Get(Get(endpoint, "errors").a[i], "statusCode")
            = Get(Get(endpoint, "response"), "statusCode")

\* The first httpResponse of a transaction has a status code of 400 or more.
PrimaryFailed(transaction) ==
    \E i \in ErrorResponses(transaction) :
        \A j \in 1..(i - 1) : ~IsElement(Children(transaction)[j], "httpResponse")

\* C30 as stated: no error of an endpoint has the status code of its
\* response.
C30_ResponseNotAmongErrors ==
    blueprint.status = "returned" =>
        \A i \in 1..Len(BlueprintEndpoints) : ~ResponseAmongErrors(BlueprintEndpoints[i])

\* C30 as amended: an error of an endpoint has the status code of its
\* response exactly when the first httpResponse of the transaction has a
\* status code of 400 or more, and then the first error is built from that
\* node.
C30_ResponseAmongErrorsWhenFailed ==
    blueprint.status = "returned" =>
        \A p \in Documented(drafted) :
            LET endpoint == BlueprintEndpoints[Rank(drafted, p)]
                transaction == FirstTransaction(NodeAt(drafted, p))
            IN /\ ResponseAmongErrors(endpoint) <=> PrimaryFailed(transaction)
               /\ PrimaryFailed(transaction) =>
                      /\ Get(Get(endpoint, "errors").a[1], "statusCode")
                             = Get(Get(endpoint, "response"), "statusCode")
                      /\ Get(Get(endpoint, "errors").a[1], "statusCode") =
                             Num(StatusNumber[StatusText(FirstChild(transaction,
                                                                    "httpResponse"))])

\* A transaction whose only response is a 404: the response of the
\* endpoint and its one error both have the status code 404.
C30_Witness ==
    /\ blueprint.status = "returned"
    /\ drafted \in BodyResults
    /\ Len(BlueprintEndpoints) = 1
    /\ Get(Get(BlueprintEndpoints[1], "response"), "statusCode") = Num(404)
    /\ Len(Get(BlueprintEndpoints[1], "errors").a) = 1
    /\ Get(Get(BlueprintEndpoints[1], "errors").a[1], "statusCode") = Num(404)

----------------------------------------------------------------------------
(* Properties of the recursive functions: termination and depth *)

Maximum(S) == CHOOSE x \in S : \A y \in S : y <= x

\* The depth of a JSON value: one for a leaf, an empty array and an empty
\* object, one more than the deepest element or member otherwise.
RECURSIVE ValueDepth(_)
ValueDepth(v) ==
    CASE v.t = "array" -> 1 + Maximum({0} \cup {ValueDepth(v.a[i]) : i \in 1..Len(v.a)})
      [] v.t = "object" -> 1 + Maximum({0} \cup {ValueDepth(v.o[i].v) : i \in 1..Len(v.o)})
      [] OTHER -> 1

\* The depth of a declared schema node by its properties and its items;
\* an absent node has depth zero.
RECURSIVE NodeDepth(_)
NodeDepth(node) ==
    IF node.t # "object" THEN 0
    ELSE 1 + Maximum({0}
                 \cup {NodeDepth(Entries(Get(node, "properties"))[i].v) :
                          i \in 1..Len(Entries(Get(node, "properties")))}
                 \cup {NodeDepth(Get(node, "items"))})

\* The depth of a SchemaType by its properties and its items.
RECURSIVE SchemaDepth(_)
SchemaDepth(schema) ==
    IF schema.t # "object" THEN 0
    ELSE 1 + Maximum({0}
                 \cup {SchemaDepth(Entries(Get(schema, "properties"))[i].v) :
                          i \in 1..Len(Entries(Get(schema, "properties")))}
                 \cup {SchemaDepth(Get(schema, "items"))})

\* The number of nodes of a declared schema node and of a SchemaType, by
\* properties and items.
RECURSIVE TreeSize(_)
TreeSize(node) ==
    IF node.t # "object" THEN 0
    ELSE LET declared == Entries(Get(node, "properties"))
             below == [i \in 1..Len(declared) |-> TreeSize(declared[i].v)]
         IN 1 + TreeSize(Get(node, "items"))
              + (IF Len(declared) >= 1 THEN below[1] ELSE 0)
              + (IF Len(declared) >= 2 THEN below[2] ELSE 0)

\* The number of values of a JSON value, itself included.
RECURSIVE ValueSize(_)
ValueSize(v) ==
    LET below == IF v.t = "array" THEN [i \in 1..Len(v.a) |-> ValueSize(v.a[i])]
                 ELSE IF v.t = "object" THEN [i \in 1..Len(v.o) |-> ValueSize(v.o[i].v)]
                 ELSE <<>>
    IN 1 + (IF Len(below) >= 1 THEN below[1] ELSE 0)
         + (IF Len(below) >= 2 THEN below[2] ELSE 0)

\* C26: parseSchema, inferSchemaFromValue and the category traversal of
\* parseAPIBlueprint build finite trees from finite inputs. Each recursive
\* call builds one node of the SchemaType, and the SchemaType has at most
\* one node more than twice the nodes of the declared node or of the JSON
\* value; it is at most one deeper than its input, by the default items of
\* an array without items or without elements. A returned blueprint schema
\* holds at most one endpoint for each node of the tree traversed.
C26_FiniteTreesOfBoundedDepth ==
    /\ (call = "parseSchema" /\ schemaType # Pending) =>
           /\ SchemaDepth(schemaType) \in 1..(NodeDepth(value) + 1)
           /\ TreeSize(schemaType) \in 1..(2 * TreeSize(value) + 1)
    /\ (call = "inferSchemaFromValue" /\ schemaType # Pending) =>
           /\ SchemaDepth(schemaType) \in 1..(ValueDepth(value) + 1)
           /\ TreeSize(schemaType) \in 1..(2 * ValueSize(value) + 1)
    /\ blueprint.status = "returned" =>
           Len(BlueprintEndpoints) <= Cardinality(Positions(drafted))

\* An array of arrays whose inner array is empty: the schema is one
\* deeper than the value, by the default items of the inner array.
C26_Witness ==
    /\ call = "inferSchemaFromValue"
    /\ value = Arr(<<Arr(<<>>)>>)
    /\ schemaType # Pending
    /\ ValueDepth(value) = 2
    /\ SchemaDepth(schemaType) = 3

----------------------------------------------------------------------------
(* Properties of the registry *)

\* The entries registry.json holds, none when the file is missing.
Stored == IF registryFile = Undefined THEN <<>> ELSE Get(registryFile, "servers").a

NameOf(entry) == Get(entry, "name").s

\* Where path.resolve takes each path the callers pass.
Resolved == [p \in ServerPaths |-> IF p = "out-mcp" THEN "/work/out-mcp" ELSE p]

Others(servers, name) == SelectSeq(servers, LAMBDA e : NameOf(e) # name)

\* The completed calls of addServer for a name, by their place in the log.
Added(name, before) ==
    {j \in 1..(before - 1) : log[j].calling.op = "addServer" /\ log[j].calling.name = name}

DistinctNames == \A i, j \in 1..Len(Stored) : NameOf(Stored[i]) = NameOf(Stored[j]) => i = j

\* What a call of getServer or listServers returned.
AnswersFromStore ==
    \A i \in 1..Len(log) :
        /\ log[i].calling.op = "getServer" =>
               log[i].reply =
                   (IF Added(log[i].calling.name, i) = {} THEN Undefined
                    ELSE log[CHOOSE j \in Added(log[i].calling.name, i) :
                                 \A k \in Added(log[i].calling.name, i) : k <= j].reply)
        /\ (log[i].calling.op = "listServers" /\ i = Len(log)) =>
               log[i].reply = Arr(Stored)

\* What the write of addServer makes of the stored entries.
AddServerStep ==
    \A c \in Callers :
        (at[c] = "write" /\ at'[c] = "idle") =>
            LET after == Get(registryFile', "servers").a
            IN /\ Len(after) = Len(Others(Stored, calling[c].name)) + 1
               /\ SubSeq(after, 1, Len(after) - 1) = Others(Stored, calling[c].name)
               /\ NameOf(after[Len(after)]) = calling[c].name
               /\ Get(after[Len(after)], "path") = Str(Resolved[calling[c].serverPath])

\* C28: with one caller calling one function after the other on a registry
\* that is missing at first, no two stored entries share a name; addServer
\* removes the entries of its name, appends the new entry last with the
\* resolved path and leaves the other entries and their order as they were;
\* getServer returns the entry most recently added under the name, and
\* listServers exactly the stored entries.
C28_RegistryKeepsOneEntryPerName ==
    /\ [](DistinctNames /\ AnswersFromStore)
    /\ [][AddServerStep]_vars

\* pets, store and pets again have been added: store stands first, and the
\* second entry of pets last, with the path resolved in /work.
C28_Witness ==
    /\ Len(log) = 3
    /\ \A i \in 1..3 : log[i].calling.op = "addServer"
    /\ <<log[1].calling.name, log[2].calling.name, log[3].calling.name>>
           = <<"pets", "store", "pets">>
    /\ log[1].calling.serverPath = "/srv/out"
    /\ log[3].calling.serverPath = "out-mcp"
    /\ Len(Stored) = 2
    /\ NameOf(Stored[1]) = "store"
    /\ NameOf(Stored[2]) = "pets"
    /\ Get(Stored[2], "path") = Str("/work/out-mcp")

\* C29: when two callers add servers of different names and their steps
\* interleave, both entries are stored once both calls have completed.
C29_NoLostUpdate ==
    (/\ \A c \in Callers : at[c] = "idle" /\ budget[c] = 0
     /\ \A c \in Callers : calling[c].op = "addServer"
     /\ calling["first"].name # calling["second"].name)
        => \A c \in Callers : \E i \in 1..Len(Stored) : NameOf(Stored[i]) = calling[c].name

----------------------------------------------------------------------------
(* Properties of the commands *)

\* The parser createCommand is to call for each format it knows.
ParserOf ==
    [openapi |-> "parseOpenAPI", swagger |-> "parseOpenAPI", apib |-> "parseAPIBlueprint",
     postman |-> "parsePostman"]

\* createCommand has gone past its dispatch.
Dispatched ==
    command = "create" /\ detection.status = "returned" /\ stage \notin {"idle", "detect"}

Called(name) == \E i \in 1..Len(calls) : calls[i] = name

RegistryTouched ==
    \/ at["first"] # "idle"
    \/ log # <<>>
    \/ registryFile \notin FoundRegistries

\* C23: createCommand calls parseOpenAPI for the formats openapi and
\* swagger, parseAPIBlueprint for apib and parsePostman for postman, which
\* fails with a ParseError; for unknown it fails with a ParseError without
\* calling a parser, unless the option aiParse is set, and then it calls
\* parseWithAI, which fails with a ParseError. analyzePatterns,
\* generateServer and addServer are called, and the registry is touched,
\* only for the formats openapi, swagger and apib.
C23_DispatchByFormat ==
    /\ Dispatched =>
           /\ detection.format \in DOMAIN ParserOf =>
                  calls = <<"detectFormat", ParserOf[detection.format]>>
                              \o SubSeq(calls, 3, Len(calls))
           /\ detection.format = "postman" =>
                  normalized = Threw("ParseError") /\ exitCode = Num(1)
           /\ detection.format = "unknown" =>
                  /\ normalized = Threw("ParseError")
                  /\ exitCode = Num(1)
                  /\ calls = IF options.aiParse = Bool(TRUE)
                             THEN <<"detectFormat", "parseWithAI">>
                             ELSE <<"detectFormat">>
    /\ (Called("analyzePatterns") \/ Called("generateServer") \/ Called("addServer")
        \/ RegistryTouched \/ written # <<>>)
           => /\ detection.status = "returned"
              /\ detection.format \in {"openapi", "swagger", "apib"}
              /\ normalized.status = "returned"

\* A file of unknown format given to create with --ai-parse: parseWithAI is
\* called and the command fails.
C23_Witness ==
    /\ command = "create"
    /\ detection.status = "returned"
    /\ detection.format = "unknown"
    /\ options.aiParse = Bool(TRUE)
    /\ calls = <<"detectFormat", "parseWithAI">>
    /\ exitCode = Num(1)

\* C24: validateCommand ends without failure only on inputs that create
\* detects and normalizes: when it has ended with exit code 0 the format is
\* openapi, swagger or apib and the document is one parseOpenAPI accepts; on
\* the formats unknown and postman it ends with exit code 1.
C24_ValidateFailsWhereCreateFails ==
    (command = "validate" /\ stage = "exited") =>
        /\ exitCode = Num(0) =>
               /\ detection.status = "returned"
               /\ detection.format \in {"openapi", "swagger", "apib"}
               /\ detection.format \in {"openapi", "swagger"} =>
                      normalized.status = "returned"
        /\ (detection.status = "returned" /\ detection.format \in {"unknown", "postman"})
               => exitCode = Num(1)

Parsers == {"parseOpenAPI", "parsePostman", "parseAPIBlueprint", "parseWithAI"}

\* The calls of createCommand are the first ones of detectFormat, a parser,
\* analyzePatterns, generateServer and addServer, in this order.
CallsInOrder ==
    /\ calls # <<>>
    /\ Len(calls) >= 2 => calls[2] \in Parsers
    /\ calls = SubSeq(<<"detectFormat", IF Len(calls) >= 2 THEN calls[2] ELSE "",
                        "analyzePatterns", "generateServer", "addServer">>, 1, Len(calls))

FullyBuilt(schema) ==
    /\ Get(schema, "name").t = "string"
    /\ HasKey(schema, "baseUrl")
    /\ Get(Get(schema, "auth"), "type").t = "string"
    /\ Get(schema, "endpoints").t = "array"

NineFiles ==
    /\ Len(written) = 9
    /\ \A i, j \in 1..9 : written[i] = written[j] => i = j

----------------------------------------------------------------------------
(* Specifications *)

DetectStart == DetectInit /\ InferenceIdle /\ OpenAPIIdle /\ BlueprintIdle /\ RegistryIdle /\ CommandIdle

SpecDetect == DetectStart /\ [][detectFormat]_vars

InferenceStart == InferenceInit /\ DetectIdle /\ OpenAPIIdle /\ BlueprintIdle /\ RegistryIdle /\ CommandIdle

InferenceNext ==
    \/ CallInferSchemaFromValue
    \/ CallParseSchema

SpecInference == InferenceStart /\ [][InferenceNext]_vars

OpenAPIStart == OpenAPIInit /\ DetectIdle /\ InferenceIdle /\ BlueprintIdle /\ RegistryIdle /\ CommandIdle

SpecOpenAPI == OpenAPIStart /\ [][CallParseOpenAPI]_vars

BlueprintStart ==
    BlueprintInit /\ DetectIdle /\ InferenceIdle /\ OpenAPIIdle /\ RegistryIdle /\ CommandIdle

SpecBlueprint == BlueprintStart /\ [][CallParseAPIBlueprint]_vars

RegistryStart ==
    RegistryInit /\ DetectIdle /\ InferenceIdle /\ OpenAPIIdle /\ BlueprintIdle /\ CommandIdle

SpecRegistry == RegistryStart /\ [][RegistryNext]_vars

ConcurrentStart ==
    ConcurrentInit /\ DetectIdle /\ InferenceIdle /\ OpenAPIIdle /\ BlueprintIdle
    /\ CommandIdle

SpecConcurrent == ConcurrentStart /\ [][RegistryNext]_vars

CommandStart == CommandInit /\ InferenceIdle /\ OpenAPIIdle /\ BlueprintIdle

SpecCommand == CommandStart /\ [][CommandNext]_vars

\* The recursive functions: one of them is called, once.
RecursionStart ==
    DetectIdle /\ InferenceIdle /\ OpenAPIIdle /\ BlueprintIdle /\ RegistryIdle /\ CommandIdle

CallRecursive ==
    /\ InferenceIdle
    /\ BlueprintIdle
    /\ \/ /\ \/ call' = "inferSchemaFromValue" /\ value' \in JSONValues(MaxDepth)
             \/ call' = "parseSchema" /\ value' \in SchemaNodes(MaxDepth)
          /\ UNCHANGED schemaType
          /\ UNCHANGED blueprintVars
       \/ /\ drafted' \in DrafterResults
          /\ UNCHANGED blueprint
          /\ UNCHANGED inferenceVars
    /\ UNCHANGED <<detectorVars, openapiVars, registryVars, commandVars>>

RecursionNext ==
    \/ CallRecursive
    \/ CallInferSchemaFromValue
    \/ CallParseSchema
    \/ CallParseAPIBlueprint

SpecRecursion == RecursionStart /\ [][RecursionNext]_vars

====
